---- MODULE Spec2Model ----
(***************************************************************************)
(* State-machine model of the node core:                                   *)
(*   - the quorum event stream MultipleSourceOfTruth                       *)
(*     (bridge/shared/src/multiple_sources_of_truth.rs),                   *)
(*   - the transaction pipe Executor::tick_transaction_pipe                *)
(*     (opt-executor/src/executor/transaction_pipe.rs).                    *)
(* Two families of specifications share the quorum stream's poll_next:     *)
(*   Spec      sources are generic streams fed and closed by producers,    *)
(*             the consumer polls at any time, the clock ticks by one;     *)
(*   TestSpec  sources are the tests' TestSource (items with delays), the  *)
(*             consumer is the tests' `while let Some(e) = next().await`,  *)
(*             polled again only when a registered timer wakes it.         *)
(* PipeSpec is the transaction pipe.                                       *)
(***************************************************************************)
EXTENDS Integers, Sequences, FiniteSets, TLC

\* ------------------------------------------------------------------ bounds
MaxSources == 2     \* Spec: sources given to MultipleSourceOfTruth::new
MaxTime == 1        \* Spec: last value of the clock
MaxEvent == 1       \* Spec: distinct event values
MaxFeed == 2        \* Spec: items the producers send in all
MaxRequests == 2    \* PipeSpec: requests the clients send in all
MaxTicks == 2       \* ConcurrentPipeSpec: tasks ticking clones of one Executor

\* Option::None of TestSource.event / TestSource.delay, and "no time yet".
None == -1

Events == 1..MaxEvent

VARIABLES
    \* MultipleSourceOfTruth
    sources,          \* Vec<S>: sequence of source records
    emitted_events,   \* HashMap<E, EventInfo>: function on a subset of the events
    threshold,        \* usize
    processed,        \* HashSet<E>
    timeout,          \* Duration
    \* environment and consumer of the stream
    now,              \* the clock the Delays read
    last,             \* result of the latest poll_next: "init", "Pending", "Some", "None"
    emitted,          \* the consumer's Vec of received events, in order
    ended,            \* poll_next has returned Ready(None)
    \* history (not read by poll_next)
    seenBy,           \* event -> names of the sources that delivered it
    firstSeen,        \* event -> time of its first delivery, or None
    removed,          \* number of sources removed so far
    fed,              \* number of items the producers have sent
    scenario,         \* which construction Init chose
    armed,            \* names of the generic sources that hold the task's waker
                      \* (their latest poll returned Pending)
    woken,            \* the task was woken since the latest poll_next
    \* Executor::tick_transaction_pipe
    mempool_client_receiver,  \* requests sent by the clients and not yet taken
    core_mempool,             \* transactions the mempool holds
    transaction_channel,      \* the DA-writer channel: transactions sent on it
    transactions_in_flight,   \* the AtomicU64 load-shedding counter
    last_gc_elapsed,          \* seconds since *last_gc
    last_tick,                \* what the latest tick did, in order
    accepted,                 \* history: transactions add_txn accepted, in order
    requests_sent,            \* history: number of requests the clients have sent
    \* concurrent ticks on clones of one Executor
    receiver_lock,            \* the RwLock of mempool_client_receiver: the tick
                              \* holding its write guard, or 0
    t_pc,                     \* tick -> "idle", "next" (in next().await), "process"
    t_request,                \* tick -> the request it took and its serial number
    handled,                  \* history: the serial numbers of the requests whose
                              \* tick has returned, in order
    \* SuzukaPartialNode: write_transactions_to_da
    w_pc,             \* where the write loop is: "loop", "recv", "write_lock",
                      \* "batch_write", "failed"
    w_elapsed,        \* ms since the current tick_write was entered
    w_wait,           \* ms the current recv or batch_write has been awaited
    transactions,     \* the tick's Vec<BlobWrite>
    w_received,       \* history: transactions the current tick took from the channel
    w_rpcs,           \* history: batch_write calls the current tick has issued
    w_result,         \* result of the latest tick_write: "Pending", "Ok", "Err"
    batch_writes,     \* history: the blobs of every batch_write call, in order
    arrived,          \* history: number of transactions the pipe has forwarded
    \* SuzukaPartialNode: read_blocks_from_da
    r_pc,             \* "open", "read_lock", "stream_read", "next", "execute_block",
                      \* "post_block_commitment", "returned", "failed"
    r_result,         \* result of the read loop's latest await: "Pending", "Ok", "Err"
    delivered,        \* history: the items the DA stream has yielded, in order
    handed,           \* history: ExecutableBlocks passed to execute_block, in order
    executed,         \* history: ExecutableBlocks execute_block has executed, in order
    posted,           \* history: commitments passed to post_block_commitment, in order
    \* SuzukaPartialNode: run_executor
    node,             \* "running", "returned" or "failed"
    light_node_client,  \* the RwLock of the DA client: "free", or the loop holding
                        \* its write guard, "write_loop" or "read_loop"
    \* the bridge: MovementClient and the bridge contracts it calls
    bridge_transfers, \* <<side, id>> -> the contract's record of the transfer
    chain_block,      \* the chain's clock
    b_last,           \* the latest call of the client and its result
    b_payload,        \* the transaction the latest call submitted, if any
    b_details,        \* the state the chain returned to the latest view and the one decoded
    \* read_commitment_events, the node's background task
    commitment_events,  \* history: the items the commitment event stream has yielded
    c_pc,               \* "next" (in stream.next().await), "returned" or "failed"
    c_log,              \* the lines the task has printed, in order
    \* AssetType and its +=
    asset,              \* the left operand (`self`)
    a_last,             \* the operands of the latest +=
    a_adds,             \* the number of += applied
    a_panicked,         \* whether a += has panicked
    overflow_checks,    \* whether the build checks integer overflow
    \* the defaults of the DA configuration
    da_signing_private_key,  \* the environment's DA_SIGNING_PRIVATE_KEY
    da_signers_sec1_keys,    \* the environment's DA_SIGNERS_SEC1_KEYS
    d_calls,            \* the values default_da_signing_private_key has returned, in order
    d_key,              \* the node's signing key, as its default gave it
    d_signers           \* the trusted signers, as their default gave them

qvars == <<sources, emitted_events, threshold, processed, timeout, now, last,
           emitted, ended, seenBy, firstSeen, removed, fed, scenario, armed, woken>>

tvars == <<receiver_lock, t_pc, t_request, handled>>

pvars == <<mempool_client_receiver, core_mempool, transaction_channel,
           transactions_in_flight, last_gc_elapsed, last_tick, accepted, requests_sent,
           tvars>>

nvars == <<w_pc, w_elapsed, w_wait, transactions, w_received, w_rpcs, w_result,
           batch_writes, arrived, r_pc, r_result, delivered, handed, executed, posted,
           node, light_node_client>>

bvars == <<bridge_transfers, chain_block, b_last, b_payload, b_details>>

cvars == <<commitment_events, c_pc, c_log>>

avars == <<asset, a_last, a_adds, a_panicked, overflow_checks>>

dvars == <<da_signing_private_key, da_signers_sec1_keys, d_calls, d_key, d_signers>>

vars == <<qvars, pvars, nvars, bvars, cvars, avars, dvars>>

\* ------------------------------------------------------------ the sources

\* A source: TestSource {name, events, event, delay}; `closed` says that no
\* producer can add items any more (always true of a TestSource, whose items
\* are all given at construction).
Source(name, evs, closed) ==
    [name |-> name, events |-> evs, event |-> None, delay |-> None, closed |-> closed]

\* hash_of(source): TestSource hashes its name only.
hash_of_constant(source) == 0
hash_of(source) == source.name

\* Delay::poll on a deadline d at time t.
DelayReady(d, t) == t >= d

\* TestSource::poll_next at time t: the poll result, the item, the source after.
SourcePoll(s, t) ==
    LET started == IF s.delay = None /\ s.events # <<>>
                   THEN [s EXCEPT !.events = Tail(@),
                                  !.event = Head(s.events)[1],
                                  !.delay = t + Head(s.events)[2]]
                   ELSE s
    IN  IF started.delay # None
        THEN IF DelayReady(started.delay, t)
             THEN [poll |-> "Some", item |-> started.event,
                   src |-> [started EXCEPT !.event = None, !.delay = None]]
             ELSE [poll |-> "Pending", item |-> None, src |-> started]
        ELSE IF s.closed
             THEN [poll |-> "None", item |-> None, src |-> s]
             ELSE [poll |-> "Pending", item |-> None, src |-> s]

\* ------------------------------------------------------------ poll_next

\* this.processed.contains(&event)
IsProcessedNever(p, event) == FALSE
IsProcessed(p, event) == event \in p

\* info.sources.len() >= this.threshold
ThresholdReachedOffByOne(info, k) == Cardinality(info.sources) + 1 >= k
ThresholdReached(info, k) == Cardinality(info.sources) >= k

\* EventInfo { sources: HashSet::new(), timestamp: Delay::new(this.timeout) };
\* `polled` is the Delay's registered waker (set when the Delay is first polled).
NewEventInfo(t, ttl) == [sources |-> {}, timestamp |-> t + ttl, polled |-> FALSE]

\* The events whose Delay is ready in the retain pass.
Expired(ee, t) == {e \in DOMAIN ee : DelayReady(ee[e].timestamp, t)}

\* emitted_events.retain(..): expired entries go to processed and are dropped,
\* the others have had their Delay polled.
RetainKeepsExpiredOut(ee, p, t) ==
    [emitted_events |-> [e \in DOMAIN ee \ Expired(ee, t) |-> [ee[e] EXCEPT !.polled = TRUE]],
     processed |-> p]
Retain(ee, p, t) ==
    [emitted_events |-> [e \in DOMAIN ee \ Expired(ee, t) |-> [ee[e] EXCEPT !.polled = TRUE]],
     processed |-> p \cup Expired(ee, t)]

\* this.sources.len() < this.threshold
TooFewSourcesInclusive(n, k) == n <= k
TooFewSources(n, k) == n < k

\* sources.remove(i)
RemoveAt(s, i) == [j \in 1..(Len(s) - 1) |-> IF j < i THEN s[j] ELSE s[j + 1]]

\* The arm Poll::Ready(None): this.sources.remove(i) and nothing else.
RemoveForgetsVotes(st, i) ==
    [st EXCEPT !.sources = RemoveAt(st.sources, i),
               !.emitted_events =
                   [ev \in DOMAIN st.emitted_events |->
                       [sources |-> st.emitted_events[ev].sources \ {hash_of(st.sources[i])},
                        timestamp |-> st.emitted_events[ev].timestamp,
                        polled |-> st.emitted_events[ev].polled]]]
Remove(st, i) == [st EXCEPT !.sources = RemoveAt(st.sources, i)]

\* The loop `for i in (0..sources.len()).rev()`; st carries the fields of
\* `this`, the deliveries made so far in this poll (for the history) and the
\* number of sources removed in it.
RECURSIVE SourcesLoop(_, _, _)
SourcesLoop(i, st, t) ==
    IF i = 0 THEN [st EXCEPT !.result = "Pending"]
    ELSE
    LET source == st.sources[i]
        p == SourcePoll(source, t)
        polled == [st EXCEPT !.sources[i] = p.src, !.visited = @ \cup {source.name}]
    IN  CASE p.poll = "Some" ->
              LET event == p.item
                  got == [polled EXCEPT !.deliveries = Append(@, <<hash_of(source), event>>)]
              IN  IF IsProcessed(st.processed, event)
                  THEN SourcesLoop(i - 1, got, t)
                  ELSE
                  LET old == IF event \in DOMAIN st.emitted_events
                             THEN st.emitted_events[event]
                             ELSE NewEventInfo(t, st.timeout)
                      info == [old EXCEPT !.sources = @ \cup {hash_of(source)}]
                      put == [got EXCEPT !.emitted_events = (event :> info) @@ @]
                  IN  IF ThresholdReached(info, st.threshold)
                      THEN [put EXCEPT !.processed = @ \cup {event},
                                       !.result = "Some", !.item = event]
                      ELSE SourcesLoop(i - 1, put, t)
          [] p.poll = "None" ->
              LET gone == [Remove(st, i) EXCEPT !.removals = @ + 1,
                                                !.visited = @ \cup {source.name}]
              IN  IF TooFewSources(Len(gone.sources), st.threshold)
                  THEN [gone EXCEPT !.result = "None"]
                  ELSE SourcesLoop(i - 1, gone, t)
          [] OTHER -> SourcesLoop(i - 1, [polled EXCEPT !.pending = @ \cup {source.name}], t)

\* MultipleSourceOfTruth::poll_next at time t.
PollNext(t) ==
    LET kept == Retain(emitted_events, processed, t)
        st == [sources |-> sources, emitted_events |-> kept.emitted_events,
               processed |-> kept.processed, threshold |-> threshold,
               timeout |-> timeout, result |-> "Pending", item |-> None,
               deliveries |-> <<>>, removals |-> 0, visited |-> {}, pending |-> {}]
    IN  SourcesLoop(Len(sources), st, t)

\* The history after the deliveries ds of one poll at time t.
RECURSIVE SeenAfter(_, _)
SeenAfter(seen, ds) ==
    IF ds = <<>> THEN seen
    ELSE SeenAfter([seen EXCEPT ![Head(ds)[2]] = @ \cup {Head(ds)[1]}], Tail(ds))

Delivered(ds) == {ds[j][2] : j \in 1..Len(ds)}

\* One call of poll_next at the current time, with the consumer's and the
\* history's bookkeeping.
DoPoll(t) ==
    LET r == PollNext(t)
    IN  /\ sources' = r.sources
        /\ emitted_events' = r.emitted_events
        /\ processed' = r.processed
        /\ last' = r.result
        /\ emitted' = IF r.result = "Some" THEN Append(emitted, r.item) ELSE emitted
        /\ ended' = (ended \/ r.result = "None")
        /\ seenBy' = SeenAfter(seenBy, r.deliveries)
        /\ firstSeen' = [e \in DOMAIN firstSeen |->
                            IF firstSeen[e] = None /\ e \in Delivered(r.deliveries)
                            THEN t ELSE firstSeen[e]]
        /\ removed' = removed + r.removals
        /\ now' = t
        /\ armed' = (armed \ r.visited) \cup r.pending
        /\ woken' = FALSE
        /\ UNCHANGED <<threshold, timeout, fed, scenario>>
        /\ UNCHANGED <<pvars, nvars, bvars, cvars, avars, dvars>>

\* --------------------------------------------------- Spec: generic sources

SourceNames == 1..MaxSources

\* MultipleSourceOfTruth::new(sources, threshold, timeout) over n open sources.
QInitWith(srcs, k, ttl, evs, name) ==
    /\ sources = srcs
    /\ emitted_events = <<>>
    /\ threshold = k
    /\ processed = {}
    /\ timeout = ttl
    /\ now = 0
    /\ last = "init"
    /\ emitted = <<>>
    /\ ended = FALSE
    /\ seenBy = [e \in evs |-> {}]
    /\ firstSeen = [e \in evs |-> None]
    /\ removed = 0
    /\ fed = 0
    /\ scenario = name
    /\ armed = {}
    /\ woken = FALSE

GenericInit ==
    \E n \in 1..MaxSources, k \in 1..(MaxSources + 1), ttl \in 1..MaxTime :
        QInitWith([i \in 1..n |-> Source(i, <<>>, FALSE)], k, ttl, Events, "generic")

\* A source whose state changes wakes the task if it holds its waker, and
\* gives the waker up.
Wakes(s) ==
    /\ woken' = (woken \/ s \in armed)
    /\ armed' = armed \ {s}

\* A producer makes item e available on the source named s, behind the items
\* the source already holds.
Feed(s, e) ==
    /\ scenario = "generic"
    /\ fed < MaxFeed
    /\ \E i \in 1..Len(sources) :
        /\ sources[i].name = s
        /\ ~sources[i].closed
        /\ sources' = [sources EXCEPT ![i].events = Append(@, <<e, 0>>)]
    /\ fed' = fed + 1
    /\ Wakes(s)
    /\ UNCHANGED <<emitted_events, threshold, processed, timeout, now, last, emitted,
                   ended, seenBy, firstSeen, removed, scenario>>
    /\ UNCHANGED <<pvars, nvars, bvars, cvars, avars, dvars>>

\* The producer of the source named s goes away: the source ends after its items.
Close(s) ==
    /\ scenario = "generic"
    /\ \E i \in 1..Len(sources) :
        /\ sources[i].name = s
        /\ ~sources[i].closed
        /\ sources' = [sources EXCEPT ![i].closed = TRUE]
    /\ Wakes(s)
    /\ UNCHANGED <<emitted_events, threshold, processed, timeout, now, last, emitted,
                   ended, seenBy, firstSeen, removed, fed, scenario>>
    /\ UNCHANGED <<pvars, nvars, bvars, cvars, avars, dvars>>

\* The Delays that hold the task's waker (a retain pass has polled them) and
\* are ready at time t.
TimersFired(ee, t) == {e \in DOMAIN ee : ee[e].polled /\ DelayReady(ee[e].timestamp, t)}

\* Time passes while some event's Delay is pending (nothing else reads the
\* clock); a Delay that becomes ready wakes the task if it holds its waker.
Tick ==
    /\ scenario = "generic"
    /\ now < MaxTime
    /\ DOMAIN emitted_events # {}
    /\ now' = now + 1
    /\ woken' = (woken \/ TimersFired(emitted_events, now + 1) # {})
    /\ UNCHANGED <<sources, emitted_events, threshold, processed, timeout, last, emitted,
                   ended, seenBy, firstSeen, removed, fed, scenario, armed>>
    /\ UNCHANGED <<pvars, nvars, bvars, cvars, avars, dvars>>

\* The consumer polls the composed stream, at any time and also after its end.
Poll ==
    /\ scenario = "generic"
    /\ DoPoll(now)

\* `stream.next().await`: the consumer polls at the start and at once after an
\* event, and after Pending only when its waker was called.
AwaitPoll ==
    /\ scenario = "generic"
    /\ ~ended
    /\ last \in {"init", "Some"} \/ woken
    /\ DoPoll(now)

\* Sources that hold ready items when the stream is built: each of the
\* sequences over two event values of up to two items.
AwaitEvents == {1, 2}

AwaitItems ==
    {<<>>} \cup {<<<<a, 0>>>> : a \in AwaitEvents}
           \cup {<<<<a, 0>>, <<b, 0>>>> : a \in AwaitEvents, b \in AwaitEvents}

AwaitInit ==
    \E i1 \in AwaitItems, i2 \in AwaitItems, k \in 1..2 :
        QInitWith(<<Source(1, i1, FALSE), Source(2, i2, FALSE)>>, k, 1,
                  AwaitEvents, "generic")

AwaitNext ==
    \/ \E s \in SourceNames, ev \in Events : Feed(s, ev)
    \/ \E s \in SourceNames : Close(s)
    \/ Tick
    \/ AwaitPoll

\* --------------------------------------------------- the tests' sources

\* Timeout of the tests: Duration::from_secs(5), in milliseconds.
TestTimeout == 5000
\* Threshold of the tests.
TestThreshold == 2

TestEvents == 1..9

\* vec![TestSource::new("source1", ..), TestSource::new("source2", ..), ..]
TestSources(e1, e2, e3) ==
    <<Source(1, e1, TRUE), Source(2, e2, TRUE), Source(3, e3, TRUE)>>

\* Delays of the family of agreeing sources, in milliseconds.
TestDelays == {50, 100, 150}

\* A source delivering 1, 2, 3 in that order with the delays d.
Agreeing(d) == <<<<1, d[1]>>, <<2, d[2]>>, <<3, d[3]>>>>

TestInit ==
    \/ QInitWith(TestSources(<<<<1, 100>>, <<2, 100>>, <<3, 100>>>>,
                              <<<<1, 150>>, <<2, 150>>, <<3, 150>>>>,
                              <<<<1, 200>>, <<2, 50>>, <<3, 300>>>>),
                  TestThreshold, TestTimeout, TestEvents, "test")
    \/ QInitWith(TestSources(<<<<1, 100>>, <<2, 200>>, <<3, 300>>>>,
                              <<<<1, 150>>, <<2, 250>>, <<3, 350>>>>,
                              <<<<1, 200>>, <<2, 300>>, <<3, 400>>>>),
                  TestThreshold, TestTimeout, TestEvents, "edge1")
    \/ QInitWith(TestSources(<<<<4, 100>>>>, <<<<5, 150>>>>, <<<<6, 200>>>>),
                  TestThreshold, TestTimeout, TestEvents, "edge2")
    \/ QInitWith(TestSources(<<<<7, 100>>, <<8, 200>>, <<9, 300>>>>,
                              <<<<7, 150>>>>,
                              <<<<7, 200>>, <<8, 300>>, <<9, 400>>>>),
                  TestThreshold, TestTimeout, TestEvents, "edge3")
    \/ QInitWith(TestSources(<<<<1, 100>>, <<2, 200>>>>,
                              <<<<1, 150>>>>,
                              <<<<1, 200>>, <<2, 300>>, <<3, 400>>>>),
                  TestThreshold, TestTimeout, TestEvents, "premature")

\* Three sources that each deliver 1, 2, 3, whatever their delays.
AgreeingInit ==
    \E d1, d2, d3 \in [1..3 -> TestDelays] :
        QInitWith(TestSources(Agreeing(d1), Agreeing(d2), Agreeing(d3)),
                  TestThreshold, TestTimeout, TestEvents, "agreeing")

\* The deadlines of the timers that hold the task's waker: the Delay of every
\* live source (polled when it is created) and the Delays of the events that a
\* retain pass has polled.
WakeTimes ==
    {sources[i].delay : i \in {j \in 1..Len(sources) : sources[j].delay # None}}
    \cup {emitted_events[e].timestamp : e \in {x \in DOMAIN emitted_events : emitted_events[x].polled}}

Earliest(S) == CHOOSE t \in S : \A u \in S : t <= u

\* `while let Some(event) = msot.next().await`: after an event (and at the
\* start) the consumer polls at once.
Repoll ==
    /\ scenario # "generic"
    /\ ~ended
    /\ last \in {"init", "Some"}
    /\ DoPoll(now)

\* After Pending the task is polled again when the earliest timer holding its
\* waker fires; with no such timer it is never polled again.
Wake ==
    /\ scenario # "generic"
    /\ ~ended
    /\ last = "Pending"
    /\ WakeTimes # {}
    /\ DoPoll(IF Earliest(WakeTimes) > now THEN Earliest(WakeTimes) ELSE now)

TestNext == Repoll \/ Wake

\* The consumer of a test is stuck: it waits for a wake-up no timer will give.
Stalled == ~ended /\ last = "Pending" /\ WakeTimes = {}

\* ------------------------------------------------- the transaction pipe

\* SignedTransaction values (also used as their hashes).
Txs == {1, 2}

\* MempoolStatusCode values add_txn may return.
StatusCodes == {"Accepted", "MempoolIsFull", "InvalidSeqNumber"}
NoStatus == "-"

\* Values of transactions_in_flight the pipe is run with.
InFlightValues == {0, 14, 15, 4095, 4096}

\* Seconds since the last mempool GC that the clock is observed at.
ElapsedValues == {0, 59, 60, 61}

\* "4096 transactions allowed in flight"
InFlightCap == 4096

\* The GC interval in seconds.
GcInterval == 60

\* Rust's `^` on unsigned integers: bitwise exclusive or.
RECURSIVE BitXor(_, _)
BitXor(a, b) ==
    IF a = 0 /\ b = 0 THEN 0
    ELSE (((a % 2) + (b % 2)) % 2) + 2 * BitXor(a \div 2, b \div 2)

\* if in_flight > 2^12
ShedLoad(in_flight) == in_flight > BitXor(2, 12)

\* transaction_channel.send(transaction).await on the unbounded channel whose
\* receiver the node keeps.
ForwardOnce(chan, tx) ==
    IF \E i \in 1..Len(chan) : chan[i] = tx THEN chan ELSE Append(chan, tx)
ForwardNothing(chan, tx) == chan
Forward(chan, tx) == Append(chan, tx)

\* A MempoolClientRequest; `cancelled` says the client has dropped the
\* receiving end of the request's oneshot reply channel.
Request(kind, tx, cancelled) == [kind |-> kind, tx |-> tx, cancelled |-> cancelled]
NoRequest == Request("none", None, FALSE)

\* callback.send(..).map_err(InternalError)?: oneshot::Sender::send returns
\* Err when the receiver has been dropped.
CallbackFails(request) == request.cancelled

\* The SubmitTransaction arm, with `status` what add_txn returns; done is "Ok"
\* or "InternalError" when the arm returns, "Continue" when it falls through.
HandleSubmit(request, in_flight, status, chan, pool) ==
    IF ShedLoad(in_flight)
    THEN [steps |-> IF CallbackFails(request) THEN <<"shed">> ELSE <<"shed", "reply">>,
          shed |-> TRUE,
          add_txn |-> NoStatus,
          reply |-> IF CallbackFails(request) THEN NoStatus ELSE "MempoolIsFull",
          chan |-> chan,
          pool |-> pool,
          done |-> IF CallbackFails(request) THEN "InternalError" ELSE "Ok"]
    ELSE [steps |-> <<"add_txn">>
                    \o (IF status = "Accepted" THEN <<"send">> ELSE <<>>)
                    \o (IF CallbackFails(request) THEN <<>> ELSE <<"reply">>),
          shed |-> FALSE,
          add_txn |-> status,
          reply |-> IF CallbackFails(request) THEN NoStatus ELSE status,
          chan |-> IF status = "Accepted" THEN Forward(chan, request.tx) ELSE chan,
          pool |-> IF status = "Accepted" THEN pool \cup {request.tx} ELSE pool,
          done |-> IF CallbackFails(request) THEN "InternalError" ELSE "Continue"]

\* The GetTransactionByHash arm.
HandleGet(request, chan, pool) ==
    [steps |-> IF CallbackFails(request) THEN <<"get_by_hash">>
               ELSE <<"get_by_hash", "reply">>,
     shed |-> FALSE,
     add_txn |-> NoStatus,
     reply |-> NoStatus,
     chan |-> chan,
     pool |-> pool,
     done |-> IF CallbackFails(request) THEN "InternalError" ELSE "Continue"]

\* if last_gc.elapsed().as_secs() > 60
GcDue(elapsed) == elapsed > GcInterval

\* Executor::tick_transaction_pipe from the request it has taken to its return:
\* the match on the request, then the GC test.
HandleRequest(request) ==
    \E status \in StatusCodes :
        LET h == IF request.kind = "Submit"
                 THEN HandleSubmit(request, transactions_in_flight, status,
                                   transaction_channel, core_mempool)
                 ELSE HandleGet(request, transaction_channel, core_mempool)
            gc == h.done = "Continue" /\ GcDue(last_gc_elapsed)
        IN  /\ transaction_channel' = h.chan
            /\ \E kept \in SUBSET h.pool :
                /\ ~gc => kept = h.pool
                /\ core_mempool' = kept
            /\ last_gc_elapsed' = IF gc THEN 0 ELSE last_gc_elapsed
            /\ last_tick' = [request |-> request,
                             in_flight |-> transactions_in_flight,
                             steps |-> h.steps \o (IF gc THEN <<"gc">> ELSE <<>>),
                             shed |-> h.shed,
                             add_txn |-> h.add_txn,
                             reply |-> h.reply,
                             result |-> IF h.done = "InternalError"
                                        THEN "InternalError" ELSE "Ok"]
            /\ accepted' = IF h.add_txn = "Accepted"
                           THEN Append(accepted, request.tx) ELSE accepted

\* Executor::tick_transaction_pipe on the request at the head of the channel
\* (with no request the tick waits in next().await).
TickTransactionPipe ==
    /\ mempool_client_receiver # <<>>
    /\ HandleRequest(Head(mempool_client_receiver))
    /\ mempool_client_receiver' = Tail(mempool_client_receiver)
    /\ UNCHANGED <<transactions_in_flight, requests_sent, tvars>>
    /\ UNCHANGED <<qvars, nvars, bvars, cvars, avars, dvars>>

\* A client sends a request; it may drop its reply receiver before the pipe
\* takes the request.
ClientSend(kind, tx, cancelled) ==
    /\ requests_sent < MaxRequests
    /\ mempool_client_receiver' = Append(mempool_client_receiver, Request(kind, tx, cancelled))
    /\ requests_sent' = requests_sent + 1
    /\ UNCHANGED <<core_mempool, transaction_channel, transactions_in_flight,
                   last_gc_elapsed, last_tick, accepted, tvars>>
    /\ UNCHANGED <<qvars, nvars, bvars, cvars, avars, dvars>>

\* Time passes between two ticks.
TimePasses ==
    /\ \E later \in ElapsedValues :
        /\ later > last_gc_elapsed
        /\ last_gc_elapsed' = later
    /\ UNCHANGED <<mempool_client_receiver, core_mempool, transaction_channel,
                   transactions_in_flight, last_tick, accepted, requests_sent, tvars>>
    /\ UNCHANGED <<qvars, nvars, bvars, cvars, avars, dvars>>

\* The tasks that call tick_transaction_pipe concurrently, each on its own
\* clone of the Executor (the clones share mempool_client_receiver).
Ticks == 1..MaxTicks

Taken(request, serial) == [request |-> request, serial |-> serial]

NoTaken == Taken(NoRequest, 0)

\* RwLock::write is granted only while no guard is out.
TryWriteUnguarded(lock) == TRUE

TryWrite(lock) == lock = 0

\* `let mut mempool_client_receiver = self.mempool_client_receiver.write().await`:
\* the tick gets the write guard and enters next().await holding it.
TickLock(p) ==
    /\ t_pc[p] = "idle"
    /\ TryWrite(receiver_lock)
    /\ receiver_lock' = p
    /\ t_pc' = [t_pc EXCEPT ![p] = "next"]
    /\ UNCHANGED <<t_request, handled>>
    /\ UNCHANGED <<mempool_client_receiver, core_mempool, transaction_channel,
                   transactions_in_flight, last_gc_elapsed, last_tick, accepted,
                   requests_sent>>
    /\ UNCHANGED <<qvars, nvars, bvars, cvars, avars, dvars>>

\* next().await yields the request at the head of the channel; the block ends
\* and drops the guard before the request is looked at.  The serial number of
\* the request is its position in the order the clients sent the requests.
TickTake(p) ==
    /\ t_pc[p] = "next"
    /\ mempool_client_receiver # <<>>
    /\ t_request' = [t_request EXCEPT ![p] =
                        Taken(Head(mempool_client_receiver),
                              requests_sent - Len(mempool_client_receiver) + 1)]
    /\ mempool_client_receiver' = Tail(mempool_client_receiver)
    /\ receiver_lock' = 0
    /\ t_pc' = [t_pc EXCEPT ![p] = "process"]
    /\ UNCHANGED handled
    /\ UNCHANGED <<core_mempool, transaction_channel, transactions_in_flight,
                   last_gc_elapsed, last_tick, accepted, requests_sent>>
    /\ UNCHANGED <<qvars, nvars, bvars, cvars, avars, dvars>>

\* The rest of the tick, on the request it took; then the tick returns.
TickProcess(p) ==
    /\ t_pc[p] = "process"
    /\ HandleRequest(t_request[p].request)
    /\ handled' = Append(handled, t_request[p].serial)
    /\ t_request' = [t_request EXCEPT ![p] = NoTaken]
    /\ t_pc' = [t_pc EXCEPT ![p] = "idle"]
    /\ UNCHANGED <<mempool_client_receiver, receiver_lock, transactions_in_flight,
                   requests_sent>>
    /\ UNCHANGED <<qvars, nvars, bvars, cvars, avars, dvars>>

\* The pipe as its caller starts it: an empty mempool, an empty channel, GC
\* timer just set, the in-flight counter at one of the values above.
PipeInitWith(in_flight) ==
    /\ mempool_client_receiver = <<>>
    /\ core_mempool = {}
    /\ transaction_channel = <<>>
    /\ transactions_in_flight = in_flight
    /\ last_gc_elapsed = 0
    /\ last_tick = [request |-> NoRequest, in_flight |-> in_flight, steps |-> <<>>,
                    shed |-> FALSE, add_txn |-> NoStatus, reply |-> NoStatus,
                    result |-> "Ok"]
    /\ accepted = <<>>
    /\ requests_sent = 0
    /\ receiver_lock = 0
    /\ t_pc = [p \in Ticks |-> "idle"]
    /\ t_request = [p \in Ticks |-> NoTaken]
    /\ handled = <<>>

PipeNext ==
    \/ \E kind \in {"Submit", "Get"}, tx \in Txs, cancelled \in BOOLEAN :
          ClientSend(kind, tx, cancelled)
    \/ TimePasses
    \/ TickTransactionPipe

\* ------------------------------------------- the DA writer and reader

\* Transactions the node takes from the channel and DA stream items it reads.
MaxArrivals == 2
MaxBlobs == 2

\* tokio::time::timeout(Duration::from_millis(100), ..recv())
RecvTimeoutMs == 100

\* end_time = start_time + Duration::from_millis(100)
BatchDeadlineMs == 100

\* The clock is observed every TimeStep ms; a batch_write answers within
\* MaxRpcMs.
TimeStep == RecvTimeoutMs \div 2
MaxRpcMs == 2 * TimeStep

\* serde_json::to_vec(&transaction): the bytes of an object holding the
\* transaction.
SerializeTx(tx) == <<123, tx, 125>>

\* serde_json::from_slice::<SignedTransaction>(bytes)
DeserializeTx(bytes) ==
    IF Len(bytes) = 3 /\ bytes[1] = 123 /\ bytes[3] = 125 /\ bytes[2] \in Txs
    THEN [ok |-> TRUE, value |-> bytes[2]]
    ELSE [ok |-> FALSE, value |-> None]

RECURSIVE Concat(_)
Concat(seqs) == IF seqs = <<>> THEN <<>> ELSE Head(seqs) \o Concat(Tail(seqs))

\* The bytes of a Block whose transactions are the serialised txs, as the DA
\* sequencer builds it.
BlockData(txs) ==
    <<91>> \o Concat([j \in 1..Len(txs) |-> SerializeTx(txs[j])]) \o <<93>>

\* serde_json::from_slice::<Block>(&block_bytes): the transactions' bytes.
DeserializeBlock(bytes) ==
    LET n == Len(bytes)
    IN  IF n >= 2 /\ bytes[1] = 91 /\ bytes[n] = 93 /\ (n - 2) % 3 = 0
        THEN [ok |-> TRUE,
              transactions |-> [j \in 1..((n - 2) \div 3) |->
                                   SubSeq(bytes, 3 * j - 1, 3 * j + 1)]]
        ELSE [ok |-> FALSE, transactions |-> <<>>]

\* sha2::Sha256 of the bytes (collision-free).
Sha256OfTransactions(bytes) == [sha256 |-> DeserializeBlock(bytes).transactions]
Sha256(bytes) == [sha256 |-> bytes]

\* SignatureVerifiedTransaction::Valid(Transaction::UserTransaction(tx))
Verified(signed_transaction) == <<"Valid", "UserTransaction", signed_transaction>>

\* ExecutableBlock::new(block_hash, ExecutableTransactions::Unsharded(txs))
ExecutableBlock(block_hash, txs) ==
    [block_id |-> block_hash, transactions |-> <<"Unsharded", txs>>]

\* The commitment execute_block returns for the n-th executed block.
Commitment(n, executable_block) == [height |-> n, block_id |-> executable_block.block_id]

\* An item of the DA read stream; block is what the sequencer put into it.
StreamItem(status, blob, blob_type, data, block) ==
    [status |-> status, blob |-> blob, blob_type |-> blob_type, data |-> data,
     block |-> block]

\* The blocks the DA sequencer forms.
DaBlocks == {<<>>, <<1>>, <<2, 1>>}

\* What stream.next() may yield: sequenced blocks, a block whose bytes do not
\* parse, a block holding a transaction that does not parse, a blob of another
\* type, a blob without a type, a response without a blob, and a transport
\* error.
DaStreamItems ==
    {StreamItem("Ok", TRUE, "SequencedBlobBlock", BlockData(b), b) : b \in DaBlocks}
    \cup {StreamItem("Ok", TRUE, "SequencedBlobBlock", <<91, 123>>, <<>>),
          StreamItem("Ok", TRUE, "SequencedBlobBlock", <<91, 123, 9, 125, 93>>, <<>>),
          StreamItem("Ok", TRUE, "PassedThroughBlob", BlockData(<<1>>), <<>>),
          StreamItem("Ok", TRUE, "None", <<>>, <<>>),
          StreamItem("Ok", FALSE, "None", <<>>, <<>>),
          StreamItem("Err", FALSE, "None", <<>>, <<>>)}

\* The body of the read loop up to the call of execute_block.
ReadBlobOfAnyType(item) ==
    IF item.status # "Ok" \/ ~item.blob \/ item.blob_type = "None"
    THEN [ok |-> FALSE, executable_block |-> None]
    ELSE LET block == DeserializeBlock(item.data)
             txs == [j \in 1..Len(block.transactions) |->
                        DeserializeTx(block.transactions[j])]
         IN  IF ~block.ok \/ \E j \in 1..Len(txs) : ~txs[j].ok
             THEN [ok |-> FALSE, executable_block |-> None]
             ELSE [ok |-> TRUE,
                   executable_block |->
                       ExecutableBlock(Sha256(item.data),
                                       [j \in 1..Len(txs) |-> Verified(txs[j].value)])]
ReadBlob(item) ==
    IF item.status # "Ok" \/ ~item.blob \/ item.blob_type # "SequencedBlobBlock"
    THEN [ok |-> FALSE, executable_block |-> None]
    ELSE LET block == DeserializeBlock(item.data)
             txs == [j \in 1..Len(block.transactions) |->
                        DeserializeTx(block.transactions[j])]
         IN  IF ~block.ok \/ \E j \in 1..Len(txs) : ~txs[j].ok
             THEN [ok |-> FALSE, executable_block |-> None]
             ELSE [ok |-> TRUE,
                   executable_block |->
                       ExecutableBlock(Sha256(item.data),
                                       [j \in 1..Len(txs) |-> Verified(txs[j].value)])]

\* tokio::try_join!(write_transactions_to_da(), read_blocks_from_da())
JoinFirst(writer, reader) ==
    IF writer = "failed" \/ reader = "failed" THEN "failed"
    ELSE IF writer = "returned" \/ reader = "returned" THEN "returned"
    ELSE "running"
JoinAll(writer, reader) ==
    IF writer \in {"returned", "failed"} /\ reader \in {"returned", "failed"}
    THEN (IF writer = "failed" \/ reader = "failed" THEN "failed" ELSE "returned")
    ELSE "running"
TryJoin(writer, reader) ==
    IF writer = "failed" \/ reader = "failed" THEN "failed"
    ELSE IF writer = "returned" /\ reader = "returned" THEN "returned"
    ELSE "running"

\* loop { self.tick_write_transactions_to_da().await?; }
WriteLoopIgnoresError(result) == "loop"
WriteLoop(result) == IF result = "Err" THEN "failed" ELSE "loop"

\* transactions.push(BlobWrite { data })
PushFront(batch, blob) == <<blob>> \o batch
Push(batch, blob) == Append(batch, blob)

\* self.settlement_manager.post_block_commitment(commitment)
PostBlockCommitmentFirst(queue, commitment) == <<commitment>> \o queue
PostBlockCommitment(queue, commitment) == Append(queue, commitment)

pipe_rest == <<mempool_client_receiver, core_mempool, transactions_in_flight,
               last_gc_elapsed, last_tick, accepted, requests_sent, tvars>>

reader_vars == <<r_pc, r_result, delivered, handed, executed, posted>>

\* The transaction pipe forwards an accepted transaction.
Arrive(tx) ==
    /\ arrived < MaxArrivals
    /\ transaction_channel' = Forward(transaction_channel, tx)
    /\ arrived' = arrived + 1
    /\ UNCHANGED <<w_pc, w_elapsed, w_wait, transactions, w_received, w_rpcs,
                   w_result, batch_writes, node, light_node_client>>
    /\ UNCHANGED <<reader_vars, pipe_rest, qvars, bvars, cvars, avars, dvars>>

\* RwLock::write is granted only while no guard is out.
ClientLockAlwaysGranted(lock) == TRUE

ClientLockGranted(lock) == lock = "free"

\* The clock advances while the writer awaits a transaction (recv() returns
\* a waiting transaction at once), the client's lock (granted at once when
\* free) or the DA.
Advance ==
    /\ node = "running"
    /\ \/ w_pc = "recv" /\ w_wait < RecvTimeoutMs /\ transaction_channel = <<>>
       \/ w_pc = "write_lock" /\ w_wait < MaxRpcMs /\ ~ClientLockGranted(light_node_client)
       \/ w_pc = "batch_write" /\ w_wait < MaxRpcMs
    /\ w_elapsed' = w_elapsed + TimeStep
    /\ w_wait' = w_wait + TimeStep
    /\ UNCHANGED <<w_pc, transactions, w_received, w_rpcs, w_result, batch_writes,
                   arrived, node, light_node_client>>
    /\ UNCHANGED <<reader_vars, pvars, qvars, bvars, cvars, avars, dvars>>

\* The write loop enters tick_write_transactions_to_da.
WriterEnter ==
    /\ node = "running"
    /\ w_pc = "loop"
    /\ w_pc' = "recv"
    /\ w_elapsed' = 0
    /\ w_wait' = 0
    /\ transactions' = <<>>
    /\ w_received' = <<>>
    /\ w_rpcs' = 0
    /\ w_result' = "Pending"
    /\ UNCHANGED <<batch_writes, arrived, node, light_node_client>>
    /\ UNCHANGED <<reader_vars, pvars, qvars, bvars, cvars, avars, dvars>>

\* The end of the while loop with the batch `batch`: client_ptr.write().await
\* if the batch is not empty, the return of the tick otherwise.
AfterBatchingDiscards(batch) ==
    /\ w_pc' = WriteLoop("Ok")
    /\ w_wait' = w_wait
    /\ w_result' = "Ok"
AfterBatching(batch) ==
    IF Len(batch) > 0
    THEN /\ w_pc' = "write_lock"
         /\ w_wait' = 0
         /\ w_result' = w_result
    ELSE /\ w_pc' = WriteLoop("Ok")
         /\ w_wait' = w_wait
         /\ w_result' = "Ok"

\* recv() yields a transaction before the timeout.
WriterRecv ==
    /\ node = "running"
    /\ w_pc = "recv"
    /\ transaction_channel # <<>>
    /\ transaction_channel' = Tail(transaction_channel)
    /\ transactions' = Push(transactions, [data |-> SerializeTx(Head(transaction_channel))])
    /\ w_received' = Append(w_received, Head(transaction_channel))
    /\ IF w_elapsed > BatchDeadlineMs
       THEN AfterBatching(transactions')
       ELSE /\ w_wait' = 0
            /\ UNCHANGED <<w_pc, w_result>>
    /\ UNCHANGED <<w_elapsed, batch_writes, w_rpcs, arrived, node, light_node_client>>
    /\ UNCHANGED <<reader_vars, pipe_rest, qvars, bvars, cvars, avars, dvars>>

\* The timeout of recv() elapses.
WriterTimeout ==
    /\ node = "running"
    /\ w_pc = "recv"
    /\ w_wait >= RecvTimeoutMs
    /\ AfterBatching(transactions)
    /\ UNCHANGED <<w_elapsed, transactions, w_received, batch_writes, w_rpcs, arrived,
                   node, light_node_client>>
    /\ UNCHANGED <<reader_vars, pvars, qvars, bvars, cvars, avars, dvars>>

\* client_ptr.write().await is granted: the writer calls batch_write with the
\* batch, holding the guard.
WriterLocks ==
    /\ node = "running"
    /\ w_pc = "write_lock"
    /\ ClientLockGranted(light_node_client)
    /\ light_node_client' = "write_loop"
    /\ w_pc' = "batch_write"
    /\ batch_writes' = Append(batch_writes, transactions)
    /\ w_rpcs' = w_rpcs + 1
    /\ w_wait' = 0
    /\ UNCHANGED <<w_elapsed, transactions, w_received, w_result, arrived, node>>
    /\ UNCHANGED <<reader_vars, pvars, qvars, bvars, cvars, avars, dvars>>

\* batch_write answers; the guard is dropped at the end of the `if` block and
\* on the return of the error.
BatchWriteDone(result) ==
    /\ node = "running"
    /\ w_pc = "batch_write"
    /\ w_result' = result
    /\ w_pc' = WriteLoop(result)
    /\ light_node_client' = "free"
    /\ node' = TryJoin(w_pc', r_pc)
    /\ UNCHANGED <<w_elapsed, w_wait, transactions, w_received, w_rpcs, batch_writes,
                   arrived>>
    /\ UNCHANGED <<reader_vars, pvars, qvars, bvars, cvars, avars, dvars>>

writer_vars == <<w_pc, w_elapsed, w_wait, transactions, w_received, w_rpcs, w_result,
                 batch_writes, arrived>>

\* while let Some(blob) = stream.next().await { ...
\*     self.settlement_manager.post_block_commitment(commitment).await?; }
ReadLoopIgnoresError(result) == "next"
ReadLoop(result) == IF result = "Err" THEN "failed" ELSE "next"

\* get_block_head_height answers; on success the reader asks for the client's
\* write guard.
ReaderOpen(result) ==
    /\ node = "running"
    /\ r_pc = "open"
    /\ r_result' = result
    /\ r_pc' = IF result = "Ok" THEN "read_lock" ELSE "failed"
    /\ node' = TryJoin(w_pc, r_pc')
    /\ UNCHANGED <<delivered, handed, executed, posted, light_node_client>>
    /\ UNCHANGED <<writer_vars, pvars, qvars, bvars, cvars, avars, dvars>>

\* client_ptr.write().await is granted: the reader calls
\* stream_read_from_height, holding the guard.
ReaderLocks ==
    /\ node = "running"
    /\ r_pc = "read_lock"
    /\ ClientLockGranted(light_node_client)
    /\ light_node_client' = "read_loop"
    /\ r_pc' = "stream_read"
    /\ UNCHANGED <<r_result, delivered, handed, executed, posted, node>>
    /\ UNCHANGED <<writer_vars, pvars, qvars, bvars, cvars, avars, dvars>>

\* stream_read_from_height answers; the guard is dropped at the end of the
\* block and on the return of the error.
StreamOpened(result) ==
    /\ node = "running"
    /\ r_pc = "stream_read"
    /\ r_result' = result
    /\ r_pc' = IF result = "Ok" THEN "next" ELSE "failed"
    /\ light_node_client' = "free"
    /\ node' = TryJoin(w_pc, r_pc')
    /\ UNCHANGED <<delivered, handed, executed, posted>>
    /\ UNCHANGED <<writer_vars, pvars, qvars, bvars, cvars, avars, dvars>>

\* stream.next() yields an item.
StreamNext(item) ==
    /\ node = "running"
    /\ r_pc = "next"
    /\ Len(delivered) < MaxBlobs
    /\ delivered' = Append(delivered, item)
    /\ LET read == ReadBlob(item)
       IN  /\ r_pc' = IF read.ok THEN "execute_block" ELSE "failed"
           /\ r_result' = IF read.ok THEN "Ok" ELSE "Err"
           /\ handed' = IF read.ok THEN Append(handed, read.executable_block) ELSE handed
    /\ node' = TryJoin(w_pc, r_pc')
    /\ UNCHANGED <<executed, posted, light_node_client>>
    /\ UNCHANGED <<writer_vars, pvars, qvars, bvars, cvars, avars, dvars>>

\* stream.next() yields None.
StreamEnds ==
    /\ node = "running"
    /\ r_pc = "next"
    /\ r_pc' = "returned"
    /\ r_result' = "Ok"
    /\ node' = TryJoin(w_pc, r_pc')
    /\ UNCHANGED <<delivered, handed, executed, posted, light_node_client>>
    /\ UNCHANGED <<writer_vars, pvars, qvars, bvars, cvars, avars, dvars>>

\* execute_block answers; on success the commitment goes to
\* post_block_commitment.
ExecuteDone(result) ==
    /\ node = "running"
    /\ r_pc = "execute_block"
    /\ IF result = "Ok"
       THEN /\ r_pc' = "post_block_commitment"
            /\ executed' = Append(executed, handed[Len(handed)])
            /\ posted' = PostBlockCommitment(posted, Commitment(Len(executed) + 1,
                                                                handed[Len(handed)]))
       ELSE /\ r_pc' = "failed"
            /\ UNCHANGED <<executed, posted>>
    /\ r_result' = result
    /\ node' = TryJoin(w_pc, r_pc')
    /\ UNCHANGED <<delivered, handed, light_node_client>>
    /\ UNCHANGED <<writer_vars, pvars, qvars, bvars, cvars, avars, dvars>>

\* post_block_commitment answers.
PostDone(result) ==
    /\ node = "running"
    /\ r_pc = "post_block_commitment"
    /\ r_result' = result
    /\ r_pc' = ReadLoop(result)
    /\ node' = TryJoin(w_pc, r_pc')
    /\ UNCHANGED <<delivered, handed, executed, posted, light_node_client>>
    /\ UNCHANGED <<writer_vars, pvars, qvars, bvars, cvars, avars, dvars>>

\* SuzukaPartialNode::bound followed by run_executor.
NodeInit ==
    /\ w_pc = "loop"
    /\ w_elapsed = 0
    /\ w_wait = 0
    /\ transactions = <<>>
    /\ w_received = <<>>
    /\ w_rpcs = 0
    /\ w_result = "Ok"
    /\ batch_writes = <<>>
    /\ arrived = 0
    /\ r_pc = "open"
    /\ r_result = "Pending"
    /\ delivered = <<>>
    /\ handed = <<>>
    /\ executed = <<>>
    /\ posted = <<>>
    /\ node = "running"
    /\ light_node_client = "free"

NodeNext ==
    \/ \E tx \in Txs : Arrive(tx)
    \/ Advance
    \/ WriterEnter
    \/ WriterRecv
    \/ WriterTimeout
    \/ WriterLocks
    \/ \E result \in {"Ok", "Err"} : BatchWriteDone(result)
    \/ \E result \in {"Ok", "Err"} : ReaderOpen(result)
    \/ ReaderLocks
    \/ \E result \in {"Ok", "Err"} : StreamOpened(result)
    \/ \E item \in DaStreamItems : StreamNext(item)
    \/ StreamEnds
    \/ \E result \in {"Ok", "Err"} : ExecuteDone(result)
    \/ \E result \in {"Ok", "Err"} : PostDone(result)

\* ------------------------------------------------------------ the bridge

\* Transfers per side, blocks the chain produces, and the contracts'
\* time-lock duration in blocks.
MaxTransfers == 1
MaxBlock == 2
TimeLockDuration == 1

Sides == {"initiator", "counterparty"}
BridgeIds == 1..MaxTransfers
PreImages == {1, 2}

\* The chain's hash of a preimage.
HashOf(preimage) == 100 + preimage

\* The contract's record of a transfer; state "None" when there is none.
Transfer(state, hash_lock, time_lock) ==
    [state |-> state, hash_lock |-> hash_lock, time_lock |-> time_lock]

\* complete: valid only if hash(preimage) == hash_lock and state is Initialized.
CanCompleteAnyPreImage(transfer, preimage) == transfer.state = "Initialized"
CanComplete(transfer, preimage) ==
    /\ transfer.state = "Initialized"
    /\ HashOf(preimage) = transfer.hash_lock

\* refund and abort: valid only after the time lock has expired and state is
\* Initialized.
CanRefundAnyState(transfer, b) ==
    /\ transfer.state # "None"
    /\ b > transfer.time_lock
CanRefund(transfer, b) ==
    /\ transfer.state = "Initialized"
    /\ b > transfer.time_lock

\* The state a refund (initiator) or an abort (counterparty) leads to.
Reverted(side) == IF side = "initiator" THEN "Refunded" ELSE "Aborted"

\* The error each client method maps a failed transaction to.
ErrorOf(side, op) ==
    CASE op = "complete" -> "CompleteTransferError"
      [] op = "initiate" -> "InitiateTransferError"
      [] op = "lock" -> "LockTransferError"
      [] op = "refund" -> "ConversionError"
      [] OTHER -> "AbortTransferError"

\* The record of a call.
Call(op, side, id, preimage, before, result) ==
    [op |-> op, side |-> side, id |-> id, preimage |-> preimage, before |-> before,
     result |-> result]

\* utils::send_and_confirm_aptos_transaction: the transaction takes effect and
\* Ok is returned when the node is reached and the contract accepts the call.
Confirmed(reached, valid) == reached /\ valid

\* Amount(AssetType::Moveth(v)) and Amount(AssetType::EthAndWeth(..))
Amount(variant, value) == [variant |-> variant, value |-> value]
Amounts == {Amount("Moveth", 1), Amount("Moveth", 300), Amount("EthAndWeth", 1)}

\* utils::serialize_u64: the eight bytes of the value, least significant first.
RECURSIVE LittleEndian(_, _)
LittleEndian(v, n) ==
    IF n = 0 THEN <<>> ELSE <<v % 256>> \o LittleEndian(v \div 256, n - 1)
SerializeU64BigEndian(v) == [i \in 1..8 |-> LittleEndian(v, 8)[9 - i]]
SerializeU64(v) == LittleEndian(v, 8)

\* utils::make_aptos_payload(address, module, function, Vec::new(), args), with
\* the amount argument of the call (<<>> when the function takes none).
Payload(function, amount_arg) == [function |-> function, amount |-> amount_arg]
NoPayload == Payload("none", <<>>)

\* initiate_bridge_transfer (side "initiator") and lock_bridge_transfer (side
\* "counterparty").
Open(side, id, hash_lock, amount, reached) ==
    LET op == IF side = "initiator" THEN "initiate" ELSE "lock"
        moveth == amount.variant = "Moveth"
        before == bridge_transfers[<<side, id>>]
        done == moveth /\ Confirmed(reached, before.state = "None")
    IN  /\ bridge_transfers' =
              IF done
              THEN [bridge_transfers EXCEPT ![<<side, id>>] =
                        Transfer("Initialized", hash_lock, chain_block + TimeLockDuration)]
              ELSE bridge_transfers
        /\ b_last' = Call(op, side, id, None, before,
                          IF ~moveth
                          THEN (IF side = "initiator" THEN "ConversionError"
                                ELSE "SerializationError")
                          ELSE IF done THEN "Ok" ELSE ErrorOf(side, op))
        /\ b_payload' = IF moveth
                        THEN Payload(IF side = "initiator" THEN "initiate_bridge_transfer"
                                     ELSE "lock_bridge_transfer",
                                     SerializeU64(amount.value))
                        ELSE NoPayload
        /\ UNCHANGED <<chain_block, b_details>>
        /\ UNCHANGED <<qvars, pvars, nvars, cvars, avars, dvars>>

\* complete_bridge_transfer of either side.
CompleteBridgeTransfer(side, id, preimage, reached) ==
    LET before == bridge_transfers[<<side, id>>]
        done == Confirmed(reached, CanComplete(before, preimage))
    IN  /\ bridge_transfers' =
              IF done
              THEN [bridge_transfers EXCEPT ![<<side, id>>].state = "Completed"]
              ELSE bridge_transfers
        /\ b_last' = Call("complete", side, id, preimage, before,
                          IF done THEN "Ok" ELSE ErrorOf(side, "complete"))
        /\ b_payload' = Payload("complete_bridge_transfer", <<>>)
        /\ UNCHANGED <<chain_block, b_details>>
        /\ UNCHANGED <<qvars, pvars, nvars, cvars, avars, dvars>>

\* refund_bridge_transfer (initiator) and abort_bridge_transfer (counterparty).
RevertBridgeTransfer(side, id, reached) ==
    LET op == IF side = "initiator" THEN "refund" ELSE "abort"
        before == bridge_transfers[<<side, id>>]
        done == Confirmed(reached, CanRefund(before, chain_block))
    IN  /\ bridge_transfers' =
              IF done
              THEN [bridge_transfers EXCEPT ![<<side, id>>].state = Reverted(side)]
              ELSE bridge_transfers
        /\ b_last' = Call(op, side, id, None, before,
                          IF done THEN "Ok" ELSE ErrorOf(side, op))
        /\ b_payload' = Payload(IF side = "initiator" THEN "refund_bridge_transfer"
                                ELSE "abort_bridge_transfer", <<>>)
        /\ UNCHANGED <<chain_block, b_details>>
        /\ UNCHANGED <<qvars, pvars, nvars, cvars, avars, dvars>>

\* The state values a view response can carry at index 5: a u64.
ReturnedStates == {1, 2, 3, 256, 257}

\* `as u8` on a u64: the low eight bits.
AsU8(v) == v % 256

\* What a view left: the state value returned and the state of the details
\* (None when the call returned no details).
Details(returned, state) == [returned |-> returned, state |-> state]
NoDetails == Details(None, None)

\* get_bridge_transfer_details of either side: a view of the contract's
\* bridge_transfers; `len` is the number of values in the response and
\* `returned` the state value it carries.
GetBridgeTransferDetails(side, id, reached, len, returned) ==
    LET before == bridge_transfers[<<side, id>>]
        result == IF ~reached THEN "CallError"
                  ELSE IF len # 6 THEN "InvalidResponseLength"
                  ELSE "Ok"
    IN  /\ b_last' = Call("details", side, id, None, before, result)
        /\ b_details' = IF result = "Ok" THEN Details(returned, AsU8(returned))
                        ELSE Details(returned, None)
        /\ b_payload' = NoPayload
        /\ UNCHANGED <<bridge_transfers, chain_block>>
        /\ UNCHANGED <<qvars, pvars, nvars, cvars, avars, dvars>>

\* The chain produces a block.
BlockPasses ==
    /\ chain_block < MaxBlock
    /\ chain_block' = chain_block + 1
    /\ UNCHANGED <<bridge_transfers, b_last, b_payload, b_details>>
    /\ UNCHANGED <<qvars, pvars, nvars, cvars, avars, dvars>>

\* The contracts as published, without transfers.
BridgeInit ==
    /\ bridge_transfers = [k \in Sides \X BridgeIds |-> Transfer("None", None, None)]
    /\ chain_block = 0
    /\ b_last = Call("none", "initiator", 1, None, Transfer("None", None, None), "Ok")
    /\ b_payload = NoPayload
    /\ b_details = NoDetails

BridgeNext ==
    \/ \E side \in Sides, id \in BridgeIds, preimage \in PreImages,
          amount \in Amounts, reached \in BOOLEAN :
            Open(side, id, HashOf(preimage), amount, reached)
    \/ \E side \in Sides, id \in BridgeIds, preimage \in PreImages, reached \in BOOLEAN :
            CompleteBridgeTransfer(side, id, preimage, reached)
    \/ \E side \in Sides, id \in BridgeIds, reached \in BOOLEAN :
            RevertBridgeTransfer(side, id, reached)
    \/ \E side \in Sides, id \in BridgeIds, reached \in BOOLEAN, len \in {5, 6},
          returned \in ReturnedStates :
            GetBridgeTransferDetails(side, id, reached, len, returned)
    \/ BlockPasses

\* ------------------------------------------------- commitment events

\* Items the commitment event stream yields, and block heights.
MaxCommitmentEvents == 3
MaxHeight == 2

\* The rejection reason is opaque to the task.
Reasons == {"reason"}

\* Ok(BlockCommitmentEvent::Accepted(commitment))
Accepted(height) ==
    [status |-> "Ok", event |-> "Accepted", height |-> height, reason |-> NoStatus]

\* Ok(BlockCommitmentEvent::Rejected { height, reason })
Rejected(height, reason) ==
    [status |-> "Ok", event |-> "Rejected", height |-> height, reason |-> reason]

\* Err(_)
StreamError == [status |-> "Err", event |-> NoStatus, height |-> 0, reason |-> NoStatus]

CommitmentStreamItems ==
    {Accepted(h) : h \in 1..MaxHeight}
    \cup {Rejected(h, r) : h \in 1..MaxHeight, r \in Reasons}
    \cup {StreamError}

\* The println! of each arm of the match.
LogLine(item) ==
    IF item.event = "Accepted"
    THEN <<"Commitment accepted", item.height>>
    ELSE <<"Commitment rejected", item.height, item.reason>>

\* After the match the while loop awaits the next item, whichever arm ran.
AfterEventRejectedFails(item) == IF item.event = "Rejected" THEN "failed" ELSE "next"

AfterEvent(item) == "next"

\* stream.next() yields an item: `res?` returns its error, the match prints
\* the event.
EventNext(item) ==
    /\ c_pc = "next"
    /\ Len(commitment_events) < MaxCommitmentEvents
    /\ commitment_events' = Append(commitment_events, item)
    /\ IF item.status = "Err"
       THEN /\ c_pc' = "failed"
            /\ c_log' = c_log
       ELSE /\ c_pc' = AfterEvent(item)
            /\ c_log' = Append(c_log, LogLine(item))
    /\ UNCHANGED <<qvars, pvars, nvars, bvars, avars, dvars>>

\* stream.next() yields None: Ok(()).
EventsEnd ==
    /\ c_pc = "next"
    /\ c_pc' = "returned"
    /\ UNCHANGED <<commitment_events, c_log>>
    /\ UNCHANGED <<qvars, pvars, nvars, bvars, avars, dvars>>

\* The task as SuzukaPartialNode::new returns it.
EventsInit ==
    /\ commitment_events = <<>>
    /\ c_pc = "next"
    /\ c_log = <<>>

EventsNext ==
    \/ \E item \in CommitmentStreamItems : EventNext(item)
    \/ EventsEnd

\* ------------------------------------------------- AssetType and +=

\* The number of += applied to one value.
MaxAdds == 2

\* A u64 as four limbs of sixteen bits, least significant first.
LimbBase == 2 ^ 16
U64Zero == <<0, 0, 0, 0>>
U64One == <<1, 0, 0, 0>>
U64Half == <<0, 0, 0, 2 ^ 15>>
U64Max == <<LimbBase - 1, LimbBase - 1, LimbBase - 1, LimbBase - 1>>
U64Values == {U64Zero, U64One, U64Half, U64Max}

\* The sum of two u64 as an integer: the limbs of a + b and the carry out of
\* the highest limb as a fifth limb.
RECURSIVE Sum(_, _, _)
Sum(a, b, carry) ==
    IF a = <<>> THEN <<carry>>
    ELSE LET s == Head(a) + Head(b) + carry
         IN  <<s % LimbBase>> \o Sum(Tail(a), Tail(b), s \div LimbBase)

\* `*a += b` on u64: when the sum does not fit, a build with overflow checks
\* panics and leaves a as it was, a build without them keeps the low 64 bits.
AddU64(a, b, checks) ==
    LET s == Sum(a, b, 0)
    IN  IF s[5] # 0 /\ checks
        THEN [panic |-> TRUE, value |-> a]
        ELSE [panic |-> FALSE, value |-> SubSeq(s, 1, 4)]

\* AssetType::Moveth(a) and AssetType::EthAndWeth((a, b))
Moveth(a) == [variant |-> "Moveth", value |-> <<a>>]
EthAndWeth(a, b) == [variant |-> "EthAndWeth", value |-> <<a, b>>]
AssetTypes ==
    {Moveth(a) : a \in U64Values}
        \cup {EthAndWeth(a, b) : a, b \in {U64Zero, U64One, U64Max}}

\* What a += left: whether it panicked and the left operand afterwards.
Added(panic, self) == [panic |-> panic, asset |-> self]

AddAssignCoerces(self, other, checks) ==
    IF self.variant = other.variant
    THEN Added(FALSE, self)
    ELSE Added(FALSE, other)

\* impl AddAssign for AssetType
AddAssign(self, other, checks) ==
    CASE self.variant = "Moveth" /\ other.variant = "Moveth" ->
            LET r == AddU64(self.value[1], other.value[1], checks)
            IN  Added(r.panic, Moveth(r.value))
      [] self.variant = "EthAndWeth" /\ other.variant = "EthAndWeth" ->
            LET ra == AddU64(self.value[1], other.value[1], checks)
                rb == AddU64(self.value[2], other.value[2], checks)
            IN  IF ra.panic
                THEN Added(TRUE, self)
                ELSE Added(rb.panic, EthAndWeth(ra.value, rb.value))
      [] OTHER -> Added(FALSE, self)

\* The operands of a +=.
Operands(self, other) == [self |-> self, other |-> other]

\* self += other
AddAssignStep(other) ==
    LET r == AddAssign(asset, other, overflow_checks)
    IN  /\ ~a_panicked
        /\ a_adds < MaxAdds
        /\ asset' = r.asset
        /\ a_panicked' = r.panic
        /\ a_last' = Operands(asset, other)
        /\ a_adds' = a_adds + 1
        /\ UNCHANGED overflow_checks
        /\ UNCHANGED <<qvars, pvars, nvars, bvars, cvars, dvars>>

\* A value before any +=, in a build with or without overflow checks.
AmountInitWith(self, checks) ==
    /\ asset = self
    /\ a_last = Operands(self, self)
    /\ a_adds = 0
    /\ a_panicked = FALSE
    /\ overflow_checks = checks

AmountInit == AmountInitWith(Moveth(U64Zero), TRUE)

AmountNext == \E other \in AssetTypes : AddAssignStep(other)

\* ------------------------------------------------- DA configuration defaults

\* The number of calls of default_da_signing_private_key.
MaxCalls == 3

\* Strings are the sequences of their bytes; "a", "b", "c" and "a,b".
Comma == 44
KeyStrings == {<<97>>, <<98>>, <<99>>}
SignersStrings == {<<98>>, <<97, 44, 98>>}

\* An environment variable, or the result of a default: set or not.
EnvVar(set, value) == [set |-> set, value |-> value]
Unset == EnvVar(FALSE, <<>>)

\* val.split(','): the pieces between the commas, `piece` being the one begun.
RECURSIVE Split(_, _)
Split(s, piece) ==
    IF s = <<>> THEN <<piece>>
    ELSE IF Head(s) = Comma THEN <<piece>> \o Split(Tail(s), <<>>)
    ELSE Split(Tail(s), Append(piece, Head(s)))

\* default_da_signing_private_key(), `random` being the key that
\* PrivateKeySigner::random() generated in this call.
SigningKey(random) ==
    IF da_signing_private_key.set THEN da_signing_private_key.value ELSE random

\* The node's signing key is taken from its default.
DefaultDaSigningPrivateKey(random) ==
    /\ Len(d_calls) < MaxCalls
    /\ d_calls' = Append(d_calls, SigningKey(random))
    /\ d_key' = EnvVar(TRUE, SigningKey(random))
    /\ UNCHANGED <<da_signing_private_key, da_signers_sec1_keys, d_signers>>
    /\ UNCHANGED <<qvars, pvars, nvars, bvars, cvars, avars>>

\* default_da_signers_sec1_keys()
DefaultDaSignersSec1Keys(random) ==
    /\ Len(d_calls) < MaxCalls
    /\ IF da_signers_sec1_keys.set
       THEN /\ d_signers' = EnvVar(TRUE, {Split(da_signers_sec1_keys.value, <<>>)[i] :
                                          i \in 1..Len(Split(da_signers_sec1_keys.value, <<>>))})
            /\ UNCHANGED d_calls
       ELSE /\ d_signers' = EnvVar(TRUE, {SigningKey(random)})
            /\ d_calls' = Append(d_calls, SigningKey(random))
    /\ UNCHANGED <<da_signing_private_key, da_signers_sec1_keys, d_key>>
    /\ UNCHANGED <<qvars, pvars, nvars, bvars, cvars, avars>>

\* A process with its environment, before any default is taken.
ConfigInitWith(signing_key, signers) ==
    /\ da_signing_private_key = signing_key
    /\ da_signers_sec1_keys = signers
    /\ d_calls = <<>>
    /\ d_key = Unset
    /\ d_signers = EnvVar(FALSE, {})

ConfigInit == ConfigInitWith(Unset, Unset)

ConfigNext ==
    \/ \E random \in KeyStrings : DefaultDaSigningPrivateKey(random)
    \/ \E random \in KeyStrings : DefaultDaSignersSec1Keys(random)

\* ------------------------------------------------------ specifications

\* Spec: the stream over generic sources, and the constructions of the tests.
Init == (GenericInit \/ TestInit) /\ PipeInitWith(0) /\ NodeInit /\ BridgeInit /\ EventsInit
          /\ AmountInit /\ ConfigInit

Next ==
    \/ \E s \in SourceNames, e \in Events : Feed(s, e)
    \/ \E s \in SourceNames : Close(s)
    \/ Tick
    \/ Poll
    \/ Repoll
    \/ Wake

Spec == Init /\ [][Next]_vars

\* The consumer keeps polling (a task that is polled whenever it asks to be).
FairSpec == Spec /\ WF_vars(Poll)

\* TestSpec: the tests, and three agreeing sources under every choice of delays.
TestSpecInit ==
    /\ TestInit \/ AgreeingInit
    /\ PipeInitWith(0)
    /\ NodeInit
    /\ BridgeInit
    /\ EventsInit
    /\ AmountInit
    /\ ConfigInit

TestSpec == TestSpecInit /\ [][TestNext]_vars

\* AwaitSpec: the stream over generic sources that hold items from the start,
\* with a consumer that awaits it.
AwaitSpecInit ==
    /\ AwaitInit
    /\ PipeInitWith(0)
    /\ NodeInit
    /\ BridgeInit
    /\ EventsInit
    /\ AmountInit
    /\ ConfigInit

AwaitSpec == AwaitSpecInit /\ [][AwaitNext]_vars

\* PipeSpec: the transaction pipe, its clients and the clock; no quorum stream.
PipeInit ==
    /\ QInitWith(<<>>, 1, 1, {}, "pipe")
    /\ \E in_flight \in InFlightValues : PipeInitWith(in_flight)
    /\ NodeInit
    /\ BridgeInit
    /\ EventsInit
    /\ AmountInit
    /\ ConfigInit

PipeSpec == PipeInit /\ [][PipeNext]_vars

\* ConcurrentPipeSpec: several tasks tick clones of one Executor while the
\* clients send requests.
ConcurrentPipeInit ==
    /\ QInitWith(<<>>, 1, 1, {}, "ticks")
    /\ PipeInitWith(0)
    /\ NodeInit
    /\ BridgeInit
    /\ EventsInit
    /\ AmountInit
    /\ ConfigInit

ConcurrentPipeNext ==
    \/ \E kind \in {"Submit", "Get"}, tx \in Txs, cancelled \in BOOLEAN :
          ClientSend(kind, tx, cancelled)
    \/ \E p \in Ticks : TickLock(p)
    \/ \E p \in Ticks : TickTake(p)
    \/ \E p \in Ticks : TickProcess(p)

ConcurrentPipeSpec == ConcurrentPipeInit /\ [][ConcurrentPipeNext]_vars

\* NodeSpec: run_executor over the DA writer and the DA reader, with the pipe
\* forwarding transactions and the DA service answering.
NodeSpecInit ==
    /\ QInitWith(<<>>, 1, 1, {}, "node")
    /\ PipeInitWith(0)
    /\ NodeInit
    /\ BridgeInit
    /\ EventsInit
    /\ AmountInit
    /\ ConfigInit

NodeSpec == NodeSpecInit /\ [][NodeNext]_vars

\* NodeFairSpec: NodeSpec in which the write loop keeps being scheduled (the
\* runtime polls a task that can go on, timers fire) and the DA service
\* answers every call it was sent.
NodeFairSpec ==
    /\ NodeSpec
    /\ WF_vars(WriterEnter)
    /\ WF_vars(WriterRecv)
    /\ WF_vars(Advance)
    /\ WF_vars(WriterTimeout)
    /\ WF_vars(WriterLocks)
    /\ WF_vars(\E result \in {"Ok", "Err"} : BatchWriteDone(result))
    /\ WF_vars(\E result \in {"Ok", "Err"} : StreamOpened(result))

\* BridgeSpec: the clients' calls on the two bridge contracts and the chain's
\* clock.
BridgeSpecInit ==
    /\ QInitWith(<<>>, 1, 1, {}, "bridge")
    /\ PipeInitWith(0)
    /\ NodeInit
    /\ BridgeInit
    /\ EventsInit
    /\ AmountInit
    /\ ConfigInit

BridgeSpec == BridgeSpecInit /\ [][BridgeNext]_vars

\* EventsSpec: the background task over every commitment event stream.
EventsSpecInit ==
    /\ QInitWith(<<>>, 1, 1, {}, "events")
    /\ PipeInitWith(0)
    /\ NodeInit
    /\ BridgeInit
    /\ EventsInit
    /\ AmountInit
    /\ ConfigInit

EventsSpec == EventsSpecInit /\ [][EventsNext]_vars

\* AmountSpec: += applied to asset values, in either build.
AmountSpecInit ==
    /\ QInitWith(<<>>, 1, 1, {}, "amount")
    /\ PipeInitWith(0)
    /\ NodeInit
    /\ BridgeInit
    /\ EventsInit
    /\ \E self \in AssetTypes, checks \in BOOLEAN : AmountInitWith(self, checks)
    /\ ConfigInit

AmountSpec == AmountSpecInit /\ [][AmountNext]_vars

\* ConfigSpec: the defaults of the DA configuration, in any environment.
ConfigSpecInit ==
    /\ QInitWith(<<>>, 1, 1, {}, "config")
    /\ PipeInitWith(0)
    /\ NodeInit
    /\ BridgeInit
    /\ EventsInit
    /\ AmountInit
    /\ \E signing_key \in {Unset} \cup {EnvVar(TRUE, k) : k \in KeyStrings},
          signers \in {Unset} \cup {EnvVar(TRUE, s) : s \in SignersStrings} :
            ConfigInitWith(signing_key, signers)

ConfigSpec == ConfigSpecInit /\ [][ConfigNext]_vars

\* ------------------------------------------------- quorum stream: claims

Range(q) == {q[j] : j \in 1..Len(q)}
IsPrefix(a, b) == Len(a) <= Len(b) /\ a = SubSeq(b, 1, Len(a))

\* C1: the composed stream emits each event value at most once, whatever the
\* sources deliver after the event was emitted or expired.
C1_AtMostOnce ==
    \A i, j \in 1..Len(emitted) : emitted[i] = emitted[j] => i = j

\* An emitted event has been delivered by more sources than the threshold
\* asked for: some source delivered it after it had been emitted.
C1_Witness ==
    \E e \in Range(emitted) : Cardinality(seenBy[e]) > threshold

\* C2: every emitted event has been delivered by at least `threshold` sources
\* with pairwise distinct ids (deliveries repeated by one source count once);
\* with the sources [4], [5], [6] and threshold 2 nothing is ever emitted and
\* the stream ends.
C2_Threshold ==
    /\ \A e \in Range(emitted) : Cardinality(seenBy[e]) >= threshold
    /\ scenario = "edge2" => emitted = <<>> /\ ~Stalled

\* An event is emitted on the delivery of the last of two or more sources.
C2_Witness ==
    /\ threshold >= 2
    /\ \E e \in Range(emitted) : Cardinality(seenBy[e]) = threshold

\* The event a step emits, when it emits one.
Emits(e) == Len(emitted') = Len(emitted) + 1 /\ emitted'[Len(emitted')] = e

\* C3: an event is emitted only before the TTL that started at its first
\* observation has elapsed; a poll at or after that moment leaves the event in
\* processed and out of emitted_events, so no later delivery can emit it.
C3_Ttl ==
    [][/\ \A e \in DOMAIN firstSeen :
            Emits(e) => firstSeen'[e] # None /\ now' < firstSeen'[e] + timeout
       /\ (Poll \/ Repoll \/ Wake) =>
            \A e \in DOMAIN firstSeen :
                (firstSeen'[e] # None /\ now' >= firstSeen'[e] + timeout)
                    => e \in processed' /\ e \notin DOMAIN emitted_events'
      ]_vars

\* An event expired before it was emitted, and `threshold` sources have
\* delivered it by now: it is processed and was never emitted.
C3_Witness ==
    \E e \in DOMAIN firstSeen :
        /\ firstSeen[e] # None
        /\ now >= firstSeen[e] + timeout
        /\ Cardinality(seenBy[e]) >= threshold
        /\ e \in processed
        /\ e \notin Range(emitted)

\* C4: whenever fewer than `threshold` sources are live, the composed stream
\* eventually yields end-of-stream to a consumer that keeps polling.
C4_LivenessFloor ==
    [](Len(sources) < threshold => <>ended)

\* C5: with threshold 2, a TTL longer than the run and three sources that each
\* deliver 1, 2, 3 with delays of their own, the consumer receives 1, 2, 3 in
\* this order and nothing else, is never left waiting without a timer to wake
\* it (every wake-up is later than the poll before it), and the stream has
\* ended only after all three were emitted.
C5_Agreeing ==
    scenario \in {"test", "edge1", "agreeing"} =>
        /\ IsPrefix(emitted, <<1, 2, 3>>)
        /\ ended => emitted = <<1, 2, 3>>
        /\ ~Stalled
        /\ last = "Pending" => \A w \in WakeTimes : w > now

\* The first test has run to the end of the stream.
C5_Witness ==
    scenario = "test" /\ ended /\ emitted = <<1, 2, 3>>

Count(seq, x) == Cardinality({i \in 1..Len(seq) : seq[i] = x})

\* The positions of the step named x in the last tick.
StepsAt(x) == {i \in 1..Len(last_tick.steps) : last_tick.steps[i] = x}

\* C7: admission implies forwarding.  Every transaction add_txn accepted is on
\* the DA-writer channel as often as it was accepted and nothing else is (the
\* multiset received downstream equals the multiset accepted); the tick that
\* accepted a transaction sent it on the channel exactly once, and did so
\* before it sent the Accepted reply.
C7_AdmissionForwards ==
    /\ \A tx \in Txs : Count(transaction_channel, tx) = Count(accepted, tx)
    /\ Len(transaction_channel) = Len(accepted)
    /\ last_tick.add_txn = "Accepted" =>
        /\ Cardinality(StepsAt("send")) = 1
        /\ transaction_channel # <<>>
        /\ transaction_channel[Len(transaction_channel)] = last_tick.request.tx
    /\ last_tick.reply = "Accepted" =>
        \A r \in StepsAt("reply") : \E f \in StepsAt("send") : f < r
    /\ last_tick.add_txn # "Accepted" => StepsAt("send") = {}

\* C7 witness: two distinct transactions were accepted, both are on the
\* channel, and the last one has been acknowledged with Accepted.
C7_Witness ==
    /\ Len(accepted) = 2
    /\ accepted[1] # accepted[2]
    /\ transaction_channel = accepted
    /\ last_tick.reply = "Accepted"

\* C8: load shed.  Whenever a SubmitTransaction is handled with the in-flight
\* counter at 4096 or more, the reply is MempoolIsFull, add_txn is not called,
\* nothing is forwarded and the tick returns success.
C8_LoadShed ==
    (last_tick.request.kind = "Submit" /\ last_tick.in_flight >= InFlightCap) =>
        /\ last_tick.reply = "MempoolIsFull"
        /\ last_tick.add_txn = NoStatus
        /\ StepsAt("send") = {}
        /\ last_tick.result = "Ok"

\* C9: no shedding below the cap.  Whenever a SubmitTransaction is handled
\* with the in-flight counter below 4096, add_txn is called and a reply that
\* is sent carries the status add_txn returned.
C9_NoShedBelowCap ==
    (last_tick.request.kind = "Submit" /\ last_tick.in_flight < InFlightCap) =>
        /\ ~last_tick.shed
        /\ last_tick.add_txn # NoStatus
        /\ last_tick.reply # NoStatus => last_tick.reply = last_tick.add_txn

\* C10: cancellation tolerance.  A tick that handles a request whose reply
\* channel the client has dropped returns success.
C10_CancellationTolerated ==
    last_tick.request.cancelled => last_tick.result = "Ok"

\* A step of the pipe: one request has been taken from the request channel.
PipeTicked ==
    /\ mempool_client_receiver # <<>>
    /\ mempool_client_receiver' = Tail(mempool_client_receiver)

C12_Rejection ==
    (last_tick.add_txn \notin {NoStatus, "Accepted"}) =>
        /\ StepsAt("send") = {}
        /\ Len(transaction_channel) = Len(accepted)
        /\ last_tick.reply = last_tick.add_txn
        /\ last_tick.result = "Ok"

\* ------------------------------------- claims, DA writer and DA reader

\* The tick_write that was entered last has returned.
TickWriteReturned == w_pc \in {"loop", "failed"}

C14_BatchBound ==
    TickWriteReturned => (w_elapsed <= 200 /\ w_rpcs <= 1)

\* The number of blobs handed to batch_write so far.
BlobsWritten == Len(Concat(batch_writes))

\* C15: write failure.  When batch_write fails, tick_write returns the error
\* and the write loop and the node end with it; from then on no batch_write
\* is issued and the writer puts nothing back on the channel (the channel
\* only grows by what the pipe forwards); every transaction taken from the
\* channel is in at most one batch.
C15_WriteFailure ==
    /\ [](w_result = "Err" => (w_pc = "failed" /\ node = "failed"))
    /\ [](BlobsWritten + (IF w_pc \in {"recv", "write_lock"} THEN Len(transactions) ELSE 0)
             + Len(transaction_channel) = arrived)
    /\ [][w_pc = "failed" =>
            /\ w_pc' = "failed"
            /\ batch_writes' = batch_writes
            /\ transaction_channel' # transaction_channel => arrived' = arrived + 1]_vars

\* C15 witness: the only batch_write failed, the loop has ended, and a
\* transaction forwarded afterwards stays on the channel.
C15_Witness ==
    /\ w_pc = "failed"
    /\ w_result = "Err"
    /\ Len(batch_writes) = 1
    /\ Len(batch_writes[1]) = 1
    /\ Len(transaction_channel) = 1

\* C16: DA round-trip.  Every sequenced block the stream has delivered was
\* handed to the executor as an ExecutableBlock whose hash is SHA-256 of the
\* blob's data bytes and whose transactions are the block's transactions,
\* each as a valid user transaction, in the block's order.
C16_RoundTrip ==
    /\ Len(handed) <= Len(delivered)
    /\ \A i \in 1..Len(delivered) :
        (/\ delivered[i].status = "Ok"
         /\ delivered[i].blob_type = "SequencedBlobBlock"
         /\ delivered[i].data = BlockData(delivered[i].block))
        => /\ i <= Len(handed)
           /\ handed[i].block_id = [sha256 |-> delivered[i].data]
           /\ handed[i].transactions
                = <<"Unsharded", [j \in 1..Len(delivered[i].block) |->
                                     <<"Valid", "UserTransaction", delivered[i].block[j]>>]>>

\* C16 witness: a block of two different transactions was delivered and
\* handed to the executor.
C16_Witness ==
    \E i \in 1..Len(handed) :
        /\ Len(delivered[i].block) = 2
        /\ delivered[i].block[1] # delivered[i].block[2]
        /\ Len(handed[i].transactions[2]) = 2

\* C17: reader and settlement ordering.  Blocks are executed in the order of
\* delivery; each executed block has exactly one commitment posted, in the
\* order of execution; a block is handed to the executor only after the
\* commitments of all blocks before it have been posted.
C17_SettlementOrder ==
    /\ [](/\ Len(posted) = Len(executed)
          /\ \A i \in 1..Len(posted) :
                posted[i] = [height |-> i, block_id |-> executed[i].block_id]
          /\ Len(executed) <= Len(handed)
          /\ Len(handed) <= Len(executed) + 1
          /\ \A i \in 1..Len(executed) :
                /\ executed[i] = handed[i]
                /\ executed[i].block_id = [sha256 |-> delivered[i].data])
    /\ [][Len(handed') > Len(handed) =>
            /\ r_pc = "next"
            /\ executed = handed
            /\ Len(posted) = Len(handed)]_vars

\* C17 witness: two different blocks were executed and their commitments
\* posted.
C17_Witness ==
    /\ Len(posted) = 2
    /\ executed[1] # executed[2]
    /\ r_pc = "next"

\* C18: supervision.  run_executor has failed exactly when the write loop or
\* the read loop has failed, and from then on neither loop takes a step: no
\* batch_write, no execution, no commitment post.
C18_Supervision ==
    /\ [](node = "failed" <=> (w_pc = "failed" \/ r_pc = "failed"))
    /\ [][node = "failed" =>
            UNCHANGED <<w_pc, w_elapsed, w_wait, transactions, w_received, w_rpcs,
                        w_result, batch_writes, r_pc, r_result, delivered, handed,
                        executed, posted, node, light_node_client>>]_vars

\* C18 witness: the write loop failed while the reader was awaiting
\* execute_block, and the node has failed.
C18_Witness ==
    /\ node = "failed"
    /\ w_pc = "failed"
    /\ r_pc = "execute_block"

\* ---------------------------------------------------- claims, the bridge

\* The transfer the latest call was about, as it is now.
LastTransfer == bridge_transfers[<<b_last.side, b_last.id>>]

Terminal == {"Completed", "Refunded", "Aborted"}

\* C19: bridge atomicity.  On each side a transfer that is Completed, Refunded
\* or Aborted never changes again, whatever complete, refund and abort calls
\* follow; a complete that succeeds found the transfer Initialized with the
\* matching preimage and leaves it Completed; a refund or abort that succeeds
\* found it Initialized with the time lock expired and leaves it Refunded
\* (initiator) or Aborted (counterparty).
C19_Atomicity ==
    /\ [][\A k \in Sides \X BridgeIds :
            bridge_transfers[k].state \in Terminal
                => bridge_transfers'[k] = bridge_transfers[k]]_vars
    /\ []((b_last.op = "complete" /\ b_last.result = "Ok") =>
            /\ b_last.before.state = "Initialized"
            /\ b_last.before.hash_lock = HashOf(b_last.preimage)
            /\ LastTransfer.state = "Completed")
    /\ []((b_last.op \in {"refund", "abort"} /\ b_last.result = "Ok") =>
            /\ b_last.before.state = "Initialized"
            /\ chain_block > b_last.before.time_lock
            /\ LastTransfer.state = (IF b_last.op = "refund" THEN "Refunded" ELSE "Aborted"))

\* C19 witness: a refund was tried after the time lock expired on a transfer
\* that was Completed, and was refused.
C19_Witness ==
    /\ b_last.op = "refund"
    /\ b_last.before.state = "Completed"
    /\ chain_block > b_last.before.time_lock
    /\ b_last.result # "Ok"
    /\ LastTransfer.state = "Completed"

RECURSIVE U64Of(_)
U64Of(bytes) ==
    IF bytes = <<>> THEN 0
    ELSE LET rest == U64Of(Tail(bytes))
         IN  IF rest >= 2 ^ 22 THEN 2 ^ 30 ELSE Head(bytes) + 256 * rest

\* C21: bridge amount variant.  initiate_bridge_transfer with an amount that
\* is not Moveth returns ConversionError and submits no transaction; with a
\* Moveth amount it submits initiate_bridge_transfer and the amount argument
\* stands for exactly the Moveth value, which is what the chain then holds
\* the call to (a call that was accepted found no transfer under the id).
C21_AmountVariant ==
    [][\A amount \in Amounts, id \in BridgeIds, preimage \in PreImages, reached \in BOOLEAN :
          Open("initiator", id, HashOf(preimage), amount, reached) =>
            IF amount.variant # "Moveth"
            THEN /\ b_last'.result = "ConversionError"
                 /\ b_payload' = NoPayload
                 /\ bridge_transfers' = bridge_transfers
            ELSE /\ b_payload'.function = "initiate_bridge_transfer"
                 /\ Len(b_payload'.amount) = 8
                 /\ U64Of(b_payload'.amount) = amount.value
                 /\ b_last'.result # "ConversionError"]_vars

\* C21 witness: an initiate with a Moveth amount above one byte was submitted
\* and accepted.
C21_Witness ==
    /\ b_last.op = "initiate"
    /\ b_last.result = "Ok"
    /\ b_payload.function = "initiate_bridge_transfer"
    /\ U64Of(b_payload.amount) = 300

\* ------------------------------------- claims, transaction pipe (continued)

\* C22: in-flight accounting.  A tick in which add_txn accepted the submission
\* raises the in-flight counter by exactly one; a tick that shed or rejected
\* the submission or served a lookup leaves the counter as it was.
C22_InFlightAccounting ==
    [][PipeTicked =>
          transactions_in_flight'
            = transactions_in_flight + (IF last_tick'.add_txn = "Accepted" THEN 1 ELSE 0)]_vars

\* C24: mempool GC.  At the end of every tick that returns success, gc() is
\* invoked once and the timer reset if 60 s or more have elapsed since the
\* last GC; otherwise gc() is not invoked and the timer is unchanged.
C24_MempoolGc ==
    [][(PipeTicked /\ last_tick'.result = "Ok") =>
          LET gcs == {i \in 1..Len(last_tick'.steps) : last_tick'.steps[i] = "gc"}
          IN  IF last_gc_elapsed >= 60
              THEN Cardinality(gcs) = 1 /\ last_gc_elapsed' = 0
              ELSE gcs = {} /\ last_gc_elapsed' = last_gc_elapsed]_vars

\* C23: request handling under concurrency.  When several tasks tick clones
\* of one Executor, every request the clients sent is in exactly one place:
\* still in the channel, taken by exactly one tick that is processing it, or
\* handled once; a tick holds at most one request and takes it in one step
\* that removes exactly that request from the channel; and the write guard on
\* the receiver is held by a tick exactly while it waits in next().await,
\* never while it processes the request.
C23_ConcurrentTicks ==
    /\ [](LET processing == {p \in Ticks : t_pc[p] = "process"}
              inProcess == {t_request[p].serial : p \in processing}
              done == Range(handled)
              taken == requests_sent - Len(mempool_client_receiver)
          IN  /\ \A p \in Ticks : (receiver_lock = p) <=> (t_pc[p] = "next")
              /\ \A p \in Ticks : p \notin processing => t_request[p] = NoTaken
              /\ Cardinality(inProcess) = Cardinality(processing)
              /\ Cardinality(done) = Len(handled)
              /\ inProcess \cap done = {}
              /\ inProcess \cup done = 1..taken)
    /\ [][\A p \in Ticks :
            /\ t_request'[p] # t_request[p] /\ t_request'[p] # NoTaken =>
                  /\ t_request[p] = NoTaken
                  /\ mempool_client_receiver # <<>>
                  /\ t_request'[p].request = Head(mempool_client_receiver)
                  /\ mempool_client_receiver' = Tail(mempool_client_receiver)
            /\ t_pc[p] = "process" /\ t_pc'[p] # "process" =>
                  /\ last_tick'.request = t_request[p].request
                  /\ receiver_lock' = receiver_lock]_vars

\* One tick processes a request while another holds the guard in
\* next().await, after a first request has been handled.
C23_Witness ==
    /\ \E p, q \in Ticks : t_pc[p] = "process" /\ t_pc[q] = "next" /\ receiver_lock = q
    /\ Len(handled) = 1

\* ------------------------------------------------- node: claims (continued)

\* C25: DA writer deadline.  tick_write stops collecting 100 ms after it was
\* entered: it is never still waiting for a transaction later than that, and
\* every transaction it puts in the batch was received from the channel no
\* later than 100 ms after entry.
C25_WriterDeadline ==
    /\ [](w_pc = "recv" => w_elapsed <= BatchDeadlineMs)
    /\ [][Len(w_received') = Len(w_received) + 1 => w_elapsed <= BatchDeadlineMs]_vars

\* The stream items that are not a sequenced block with decodable data.
Malformed ==
    DaStreamItems
      \ {StreamItem("Ok", TRUE, "SequencedBlobBlock", BlockData(b), b) : b \in DaBlocks}

\* C27: DA reader, malformed input.  A delivered item that is an error, has
\* no blob, has no blob type, has another blob type, or whose data does not
\* decode is the last item the reader takes: read_blocks_from_da and the node
\* have failed, the item was not handed to the executor, nothing was executed
\* or posted for it, and the blocks executed and the commitments posted are
\* only those of the items before it.
C27_MalformedInput ==
    \A i \in 1..Len(delivered) :
        delivered[i] \in Malformed
        => /\ i = Len(delivered)
           /\ r_pc = "failed"
           /\ node = "failed"
           /\ Len(handed) = i - 1
           /\ Len(executed) = i - 1
           /\ Len(posted) = i - 1

\* C27 witness: after one block was executed and its commitment posted, the
\* stream delivered a blob without a blob type.
C27_Witness ==
    /\ Len(delivered) = 2
    /\ delivered[2] = StreamItem("Ok", TRUE, "None", <<>>, <<>>)
    /\ Len(posted) = 1
    /\ r_pc = "failed"

\* batch_write has just answered with an error / post_block_commitment has
\* just answered with an error.
BatchWriteFails == w_pc = "batch_write" /\ w_result' = "Err"
PostFails == r_pc = "post_block_commitment" /\ r_result' = "Err"

\* C28 as stated: transient I/O recovery.  After a failed batch_write the
\* write loop goes on with its next tick, after a failed post_block_commitment
\* the read loop goes on with the next blob, and the node keeps running.
C28_TransientRecovery ==
    [][/\ BatchWriteFails => (w_pc' = "loop" /\ node' = "running")
       /\ PostFails => (r_pc' = "next" /\ node' = "running")]_vars

\* C28, amended: a failed batch_write ends the write loop and a failed
\* post_block_commitment ends the read loop, each with the error, and
\* run_executor fails with it; after the read loop has failed no blob is
\* read, executed or posted, after the write loop has failed no batch is
\* written.
C28_ErrorsPropagate ==
    [][/\ BatchWriteFails => (w_pc' = "failed" /\ node' = "failed")
       /\ PostFails => (r_pc' = "failed" /\ node' = "failed")
       /\ r_pc = "failed" => UNCHANGED <<r_pc, delivered, handed, executed, posted>>
       /\ w_pc = "failed" => UNCHANGED <<w_pc, batch_writes>>]_vars

\* C28 witness: the first block was executed, the post of its commitment
\* failed, and the node has failed while the writer was collecting.
C28_Witness ==
    /\ r_pc = "failed"
    /\ r_result = "Err"
    /\ Len(delivered) = 1
    /\ Len(executed) = 1
    /\ Len(posted) = 1
    /\ node = "failed"
    /\ w_pc = "recv"

\* C29: DA client exclusion.  batch_write is in progress only while the write
\* loop holds the client's write guard and stream_read_from_height only
\* while the read loop holds it, so the two are never in progress together;
\* a batch_write starts only when no guard is out and no other batch_write
\* is in progress.
C29_ClientExclusion ==
    /\ [](/\ w_pc = "batch_write" => light_node_client = "write_loop"
          /\ r_pc = "stream_read" => light_node_client = "read_loop"
          /\ ~(w_pc = "batch_write" /\ r_pc = "stream_read"))
    /\ [][Len(batch_writes') > Len(batch_writes) =>
            /\ w_pc = "write_lock"
            /\ r_pc # "stream_read"
            /\ light_node_client = "free"
            /\ light_node_client' = "write_loop"]_vars

\* C29 witness: the writer has a batch and has been waiting for the guard
\* while the reader holds it in stream_read_from_height.
C29_Witness ==
    /\ w_pc = "write_lock"
    /\ w_wait > 0
    /\ r_pc = "stream_read"
    /\ light_node_client = "read_loop"
    /\ node = "running"

\* C26: pipe-to-DA delivery.  Every transaction the pipe has forwarded is in
\* exactly one place: on the channel, in the batch the writer is collecting,
\* or in one batch_write call; and while the node runs, the n-th forwarded
\* transaction is eventually in a batch_write call.
C26_Delivery ==
    /\ [](BlobsWritten + (IF w_pc \in {"recv", "write_lock"} THEN Len(transactions) ELSE 0)
             + Len(transaction_channel) = arrived)
    /\ \A n \in 1..MaxArrivals :
          (arrived >= n) ~> (BlobsWritten >= n \/ node # "running")

\* C26 witness: two forwarded transactions were written in two batch_write
\* calls and the node is still running.
C26_Witness ==
    /\ arrived = 2
    /\ Len(batch_writes) = 2
    /\ BlobsWritten = 2
    /\ transaction_channel = <<>>
    /\ node = "running"

\* The last item the commitment event stream has yielded.
LastEvent == commitment_events[Len(commitment_events)]

\* C30: commitment events.  The task has printed one line for each event the
\* stream has yielded, in stream order; after an Accepted and after a
\* Rejected event alike it awaits the next item; it has failed exactly when
\* the last item yielded is an error, and nothing is read after that; it
\* returns success only at the end of a stream that yielded no error.
C30_CommitmentEvents ==
    /\ [](LET oks == SelectSeq(commitment_events, LAMBDA item : item.status = "Ok")
          IN  /\ c_log = [i \in 1..Len(oks) |->
                            IF oks[i].event = "Accepted"
                            THEN <<"Commitment accepted", oks[i].height>>
                            ELSE <<"Commitment rejected", oks[i].height, oks[i].reason>>]
              /\ \A i \in 1..(Len(commitment_events) - 1) :
                    commitment_events[i].status = "Ok"
              /\ c_pc = "failed" <=>
                    (commitment_events # <<>> /\ LastEvent.status = "Err")
              /\ c_pc = "returned" => Len(oks) = Len(commitment_events))
    /\ [][/\ Len(commitment_events') > Len(commitment_events) =>
              /\ c_pc = "next"
              /\ c_pc' = IF LastEvent'.status = "Ok" THEN "next" ELSE "failed"
          /\ (c_pc' = "returned" /\ c_pc # "returned") =>
              /\ c_pc = "next"
              /\ commitment_events' = commitment_events]_vars

\* C30 witness: the stream yielded a Rejected event, then an Accepted event,
\* then ended; both were printed and the task returned success.
C30_Witness ==
    /\ Len(commitment_events) = 2
    /\ commitment_events[1].event = "Rejected"
    /\ commitment_events[2].event = "Accepted"
    /\ Len(c_log) = 2
    /\ c_pc = "returned"

\* ------------------------------------- quorum stream: claims (continued)

\* The items the sources hold; those of a generic source are ready at once.
RECURSIVE Queued(_)
Queued(srcs) ==
    IF srcs = <<>> THEN 0 ELSE Len(Head(srcs).events) + Queued(Tail(srcs))

\* C31: draining.  A poll that took items from the sources and returned
\* Pending has polled every live source until it had no item ready: when it
\* returns, no generic source holds an item.
C31_Draining ==
    [][(scenario = "generic" /\ Queued(sources') < Queued(sources) /\ last' = "Pending")
          => Queued(sources') = 0]_vars

\* The sources that have delivered event e or hold it as a ready item.
Holders(e) ==
    seenBy[e] \cup {sources[i].name : i \in {j \in 1..Len(sources) :
                        \E n \in 1..Len(sources[j].events) : sources[j].events[n][1] = e}}

\* Nothing will wake the awaiting task: no source and no timer holds its waker.
NoWakeUp ==
    /\ ~ended
    /\ last = "Pending"
    /\ ~woken
    /\ armed = {}
    /\ \A e \in DOMAIN emitted_events : ~emitted_events[e].polled

\* C36: progress.  The stream never returns Pending with no wake-up
\* registered while a source still holds an undelivered item; so a consumer
\* that awaits the stream is never left unwoken for good while an event that
\* `threshold` distinct sources have delivered or hold ready is neither
\* emitted nor expired.
C36_Progress ==
    NoWakeUp =>
        /\ Queued(sources) = 0
        /\ \A e \in DOMAIN seenBy :
              Cardinality(Holders(e)) >= threshold
                 => (e \in Range(emitted) \/ e \in processed)

\* C37: end is final.  Once the composed stream has yielded end-of-stream, no
\* later poll yields an event.
C37_EndIsFinal ==
    [][ended => emitted' = emitted]_vars

\* The names of the live sources.
Live == {sources[i].name : i \in 1..Len(sources)}

\* C38: removal frame.  The observations and the TTL deadline of a pending
\* event never change except by one more observation, also in a poll that
\* removes an ended source; such a poll drops only expired events, and adds
\* to the processed set only the events it expires or emits.
C38_RemovalFrame ==
    [][/\ \A e \in DOMAIN emitted_events \cap DOMAIN emitted_events' :
            /\ emitted_events[e].sources \subseteq emitted_events'[e].sources
            /\ emitted_events'[e].timestamp = emitted_events[e].timestamp
       /\ removed' > removed =>
            /\ Live' \subseteq Live
            /\ DOMAIN emitted_events \ Expired(emitted_events, now')
                    \subseteq DOMAIN emitted_events'
            /\ processed \subseteq processed'
            /\ processed' \subseteq processed \cup Expired(emitted_events, now')
                                             \cup (Range(emitted') \ Range(emitted))
      ]_vars

\* C38 witness: the latest poll emitted an event on exactly `threshold`
\* observations, one of them by a source that had been removed.
C38_Witness ==
    /\ last = "Some"
    /\ removed > 0
    /\ LET e == emitted[Len(emitted)]
       IN  /\ e \in DOMAIN emitted_events
           /\ Cardinality(emitted_events[e].sources) = threshold
           /\ emitted_events[e].sources \ Live # {}

\* C39: reader end of stream.  After the DA stream has ended without error
\* read_blocks_from_da has returned and stays returned: no further item is
\* read, no block executed, no commitment posted; run_executor has not
\* returned, and it is running exactly as long as the write loop has not
\* failed, so the writer's steps go on.
C39_ReaderEnd ==
    /\ [](/\ node # "returned"
          /\ r_pc = "returned" =>
                /\ r_result = "Ok"
                /\ node = "running" <=> w_pc # "failed"
                /\ \A i \in 1..Len(delivered) : delivered[i] \notin Malformed)
    /\ [][r_pc = "returned" =>
            UNCHANGED <<r_pc, r_result, delivered, handed, executed, posted>>]_vars

\* C39 witness: the reader has returned after one block and the writer is in
\* its second batch_write.
C39_Witness ==
    /\ r_pc = "returned"
    /\ Len(executed) = 1
    /\ node = "running"
    /\ w_pc = "batch_write"
    /\ Len(batch_writes) = 2

\* ------------------------------------------------- bridge: claims (continued)

\* A call that reached the point of submitting to the chain and failed.
FailedSubmission ==
    /\ b_last.result \notin {"Ok", "InvalidResponseLength"}
    /\ ~(b_last.op \in {"initiate", "lock"} /\ b_payload = NoPayload)

\* C32: bridge error kinds.  A failed chain submission is reported with the
\* error kind of the operation that failed: lock gives LockTransferError,
\* complete CompleteTransferError, abort AbortTransferError, initiate
\* InitiateTransferError and a view CallError; ConversionError is returned only
\* when the amount's variant does not match the chain, never for a failed
\* refund or any other failed submission.
C32_ErrorKinds ==
    /\ FailedSubmission =>
          /\ b_last.op = "lock" => b_last.result = "LockTransferError"
          /\ b_last.op = "complete" => b_last.result = "CompleteTransferError"
          /\ b_last.op = "abort" => b_last.result = "AbortTransferError"
          /\ b_last.op = "initiate" => b_last.result = "InitiateTransferError"
          /\ b_last.op = "details" => b_last.result = "CallError"
          /\ b_last.result # "ConversionError"
    /\ b_last.result = "ConversionError" =>
          /\ b_last.op \in {"initiate", "lock"}
          /\ b_payload = NoPayload

\* C33: bridge state decoding.  The state in the details returned by
\* get_bridge_transfer_details equals the state value the chain returned, and
\* a returned value of 256 or more yields an error, never details carrying a
\* different state number.
C33_StateDecoding ==
    b_last.op = "details" =>
        /\ b_last.result = "Ok" => b_details.state = b_details.returned
        /\ (b_details.returned >= 256) => b_last.result # "Ok"

\* ------------------------------------------------- AssetType: claims

\* The outcome of a panic, for sums of more than two operands.
Panicked == [variant |-> "panic", value |-> <<>>]

\* x + y as += computes it in this build, a panic in an operand or in the
\* addition giving Panicked.
Plus(x, y) ==
    IF x = Panicked \/ y = Panicked THEN Panicked
    ELSE LET r == AddAssign(x, y, overflow_checks)
         IN  IF r.panic THEN Panicked ELSE r.asset

\* The zero of a variant.
ZeroOf(x) == IF x.variant = "Moveth" THEN Moveth(U64Zero) ELSE EthAndWeth(U64Zero, U64Zero)

\* C34: amount addition.  Within one variant += is componentwise addition
\* and forms a monoid: the left operand becomes the componentwise sum of the
\* operands as integers, without a panic, for all u64 operands including those
\* whose sum reaches 2^64; the operation is associative and the zero of the
\* variant is its identity.
C34_AdditionMonoid ==
    /\ [][(a_adds' = a_adds + 1 /\ a_last'.self.variant = a_last'.other.variant) =>
            /\ ~a_panicked'
            /\ asset'.variant = a_last'.self.variant
            /\ \A j \in DOMAIN asset'.value :
                  Sum(a_last'.self.value[j], a_last'.other.value[j], 0)
                      = asset'.value[j] \o <<0>>]_vars
    /\ [](\A x \in AssetTypes :
            /\ Plus(x, ZeroOf(x)) = x
            /\ Plus(ZeroOf(x), x) = x
            /\ \A y, z \in AssetTypes :
                  (x.variant = y.variant /\ y.variant = z.variant) =>
                      Plus(Plus(x, y), z) = Plus(x, Plus(y, z)))

\* C40: amount addition across variants.  += between a Moveth and an
\* EthAndWeth value, in either order, leaves the left operand unchanged and
\* raises no error: the added amount is not accounted.
C40_CrossVariant ==
    [][(a_adds' = a_adds + 1 /\ a_last'.self.variant # a_last'.other.variant) =>
            /\ asset' = asset
            /\ asset' = a_last'.self
            /\ ~a_panicked']_vars

\* C40 witness: an EthAndWeth value with a non-zero amount was added to a
\* Moveth value, which still holds what it held.
C40_Witness ==
    /\ a_adds > 0
    /\ a_last.self = Moveth(U64One)
    /\ a_last.other = EthAndWeth(U64One, U64Max)
    /\ asset = Moveth(U64One)
    /\ ~a_panicked

\* ------------------------------------------------- DA configuration: claims

\* C35: default DA signers.  When DA_SIGNERS_SEC1_KEYS is unset the default
\* set of trusted signers contains exactly the key that
\* default_da_signing_private_key yields for this node, also when
\* DA_SIGNING_PRIVATE_KEY is unset: successive calls of
\* default_da_signing_private_key in one process return the same key.
C35_DefaultSigners ==
    /\ \A i, j \in DOMAIN d_calls : d_calls[i] = d_calls[j]
    /\ (~da_signers_sec1_keys.set /\ d_signers.set /\ d_key.set) =>
            d_signers.value = {d_key.value}

====
